---------------------------- MODULE Spec2Model ----------------------------
(***************************************************************************)
(* A model of the rovelink radio-link benchmark.                           *)
(*                                                                         *)
(*   src/xbee_benchmark.py   XBeeBenchmark: the framed-message codec        *)
(*                           (create_message / parse_message), the          *)
(*                           background receive loop and its handlers.      *)
(*   src/rf_latency_test.py  RFBandwidthTester: the paced transmitter       *)
(*                           (chunked_send), the bounded receiver           *)
(*                           (receive_data_with_timeout), the SYNC          *)
(*                           handshake (wait_for_sync) and run_test.        *)
(*                                                                         *)
(* A byte string is a sequence of integers in 0..255.  A character is its   *)
(* code point.  A double is its IEEE-754 bit pattern, written as 8 bytes,   *)
(* most significant byte first.  Each part of the program has its own       *)
(* specification (SpecCodec, SpecRecv, SpecChunk, SpecLink); a              *)
(* specification leaves the variables of the other parts at their initial   *)
(* values.                                                                  *)
(***************************************************************************)
EXTENDS Integers, Sequences, FiniteSets, TLC

VARIABLES
    \* ---- SpecCodec: one create_message / parse_message experiment
    c_in,       \* the arguments of create_message and the clock reading
    c_data,     \* the byte string handed to parse_message
    c_out,      \* what parse_message returned
    c_pc        \* "new", "built", "mangled", "parsed"

codecVars == <<c_in, c_data, c_out, c_pc>>

VARIABLES
    \* ---- SpecRecv: one XBeeBenchmark node, its receive thread and its peer
    running,                \* self.running
    serial_open,            \* self.serial_conn is open
    air,                    \* bytes the peer wrote that have not arrived yet
    in_waiting,             \* bytes in the port's input buffer
    buffer,                 \* receive_messages' local buffer
    rx_bytes,               \* self.rx_bytes
    tx_bytes,               \* self.tx_bytes
    latency_measurements,   \* self.latency_measurements
    written,                \* the byte strings this node wrote, one per write
    dispatched,             \* the messages handed to handle_received_message
    peer_frames,            \* the frames the peer sent, as it built them
    clock                   \* this node's clock reading

recvVars == <<running, serial_open, air, in_waiting, buffer, rx_bytes, tx_bytes,
              latency_measurements, written, dispatched, peer_frames, clock>>

VARIABLES
    \* ---- SpecChunk: one call of RFBandwidthTester.chunked_send
    cs_data,        \* data
    cs_chunk_size,  \* chunk_size
    cs_idx,         \* idx
    cs_total,       \* total_written
    cs_ret,         \* the value returned (-2 until the call returns)
    cs_log,         \* what the call did to the stream: writes and sleeps
    cs_pc           \* "off", "loop", "done"

chunkVars == <<cs_data, cs_chunk_size, cs_idx, cs_total, cs_ret, cs_log, cs_pc>>

VARIABLES
    \* ---- SpecLink: run_test on the base and on the rover, and the link
    pc,         \* each endpoint's place in run_test
    port,       \* each endpoint's self.ser is open
    wire,       \* bytes in flight towards each endpoint
    rxq,        \* bytes in each port's input buffer
    rcv,        \* each endpoint's call of receive_data_with_timeout
    sync,       \* wait_for_sync: "Idle", "Waiting", "Ready", "Failed"
    result,     \* what run_test returned: "none", "True", "False"
    sent,       \* the byte strings each endpoint wrote, one per write
    now,        \* the time, in milliseconds
    faults,     \* bytes the link has lost or corrupted
    size_i,     \* base: index of the size under test in test_sizes
    it,         \* base: iterations of that size started
    tx_start,   \* base: tx_start_ns of the iteration
    samples,    \* base: the samples of the run, one record per ACK
    expected    \* rover: expected_size of the payload being received

linkVars == <<pc, port, wire, rxq, rcv, sync, result, sent, now, faults,
              size_i, it, tx_start, samples, expected>>

VARIABLES
    \* ---- SpecThreads: the threads of one XBeeBenchmark node (start), or
    \* ---- of COMPortTester.test_throughput
    x_pc,           \* the place of each thread: "main", "rx", "stats"
    x_running,      \* self.running
    x_open,         \* self.serial_conn is open
    x_tx_bytes,     \* self.tx_bytes
    x_rx_bytes,     \* self.rx_bytes
    x_latency,      \* self.latency_measurements
    x_stream,       \* what the stream accepted, in order: parts of frames
    x_send,         \* the call of send_message each thread is in
    x_air,          \* frames in flight towards the node
    x_inbox,        \* frames in the port's input buffer
    x_todo,         \* receive_messages: frames read and not yet handled
    x_series,       \* run_comprehensive_test: the latency test in progress
    x_requests,     \* PINGs written so far, per latency test
    x_agg,          \* run_latency_test: what the aggregation has read
    x_results,      \* what the calls of run_latency_test returned, in order
    x_closed_use,   \* threads that have used the stream after it was closed
    x_peer_pings,   \* PINGs the peer has sent to the node
    tp_pc,          \* test_throughput: the place of the caller
    tp_rx,          \* test_throughput: the place of receiver()
    tp_running,     \* COMPortTester.running
    tp_packets      \* packets_sent

threadVars == <<x_pc, x_running, x_open, x_tx_bytes, x_rx_bytes, x_latency,
                x_stream, x_send, x_air, x_inbox, x_todo, x_series, x_requests,
                x_agg, x_results, x_closed_use, x_peer_pings, tp_pc, tp_rx,
                tp_running, tp_packets>>

VARIABLES
    \* ---- SpecTimeout: one derivation of an iteration's ACK timeout
    to_baud,        \* self.baudrate
    to_size,        \* size
    to_est,         \* est_tx_s, in units of 1200 / (6000 * baudrate) s
    to_timeout,     \* ack_wait_timeout, in the same units
    to_rover,       \* timeout_for_payload of the rover for the same size
    to_prev,        \* the derivation before this one
    to_pc           \* "off", "new", "done"

timeoutVars == <<to_baud, to_size, to_est, to_timeout, to_rover, to_prev, to_pc>>

VARIABLES
    \* ---- SpecSend: calls of send_message one after the other
    sm_open,        \* self.serial_conn is there and is_open
    sm_tx_bytes,    \* self.tx_bytes
    sm_accepted,    \* the byte counts the stream's writes have returned, summed
    sm_last,        \* the last call: its outcome, what it returned, tx_bytes before it
    sm_calls        \* calls of send_message so far

sendVars == <<sm_open, sm_tx_bytes, sm_accepted, sm_last, sm_calls>>

VARIABLES
    \* ---- SpecWait: one call of receive_data_with_timeout
    rw_pc,          \* "off", "call", "loop", "returned"
    rw_open,        \* self.ser is there and is_open
    rw_expected,    \* expected_size
    rw_timeout,     \* timeout, in ticks of the clock
    rw_now,         \* time.time_ns(), in ticks
    rw_call,        \* start_ns, deadline_ns, received, last_recv_ts
    rw_pending,     \* bytes that have reached the port and are not read yet
    rw_arrived,     \* bytes that have reached the port so far
    rw_ret,         \* what the call returned
    rw_exit         \* how it returned: "none", "not_open", "loop", "raised"

waitVars == <<rw_pc, rw_open, rw_expected, rw_timeout, rw_now, rw_call,
              rw_pending, rw_arrived, rw_ret, rw_exit>>

VARIABLES
    \* ---- SpecRtt: the timing of one iteration of test_as_base
    rt_pc,          \* "off", "start", "sending", "ack_wait", "got", "done"
    rt_clock,       \* time.time_ns(), in ticks
    rt_tx_start,    \* tx_start_ns
    rt_tx_end,      \* tx_end_ns
    rt_ack,         \* ack
    rt_last,        \* ack_last_ts
    rt_rtt,         \* rtt_ns
    rt_one_way,     \* one_way_ns, in half ticks
    rt_sample,      \* the iteration appended a sample
    rt_set_back     \* times the clock of the machine has been set back

rttVars == <<rt_pc, rt_clock, rt_tx_start, rt_tx_end, rt_ack, rt_last, rt_rtt,
             rt_one_way, rt_sample, rt_set_back>>

VARIABLES
    \* ---- SpecBandwidth: run_bandwidth_test beside the receive thread
    bw_start_bytes, \* start_bytes
    bw_bytes_sent   \* bytes_sent of the result returned

bwVars == <<bw_start_bytes, bw_bytes_sent>>

VARIABLES
    \* ---- history of test_as_rover, kept beside the linked run
    rv_headers      \* size headers the rover has received (4 bytes read)

roverVars == <<rv_headers>>

VARIABLES
    \* ---- SpecExtract: the "Process complete messages" loop, step by step
    ex_pc,          \* "off", "read", "loop", "done"
    ex_buffer,      \* buffer
    ex_handled,     \* candidates parsed and handed to the handler
    ex_dropped      \* candidates that failed to parse

extractVars == <<ex_pc, ex_buffer, ex_handled, ex_dropped>>

VARIABLES
    \* ---- SpecLatency: one call of COMPortTester.test_latency
    lt_pc,          \* "off", "call", "check", "returned"
    lt_open,        \* self.serial_conn is open
    lt_num_tests,   \* num_tests
    lt_packet_size, \* packet_size
    lt_answers,     \* the device at the other end answers a packet
    lt_written,     \* packets written to the port
    lt_responses,   \* responses read from the port
    lt_result       \* the value returned: "none", "None", "statistics"

latVars == <<lt_pc, lt_open, lt_num_tests, lt_packet_size, lt_answers,
             lt_written, lt_responses, lt_result>>

vars == <<codecVars, recvVars, chunkVars, linkVars, threadVars, timeoutVars, sendVars,
          waitVars,
          rttVars,
          bwVars,
          roverVars,
          extractVars,
          latVars>>

\* what the actions of one specification leave alone
notCodec ==
    <<recvVars, chunkVars, linkVars, threadVars, timeoutVars, sendVars, waitVars, rttVars, bwVars, roverVars, extractVars, latVars>>

notRecv ==
    <<codecVars, chunkVars, linkVars, threadVars, timeoutVars, sendVars, waitVars, rttVars, bwVars, roverVars, extractVars, latVars>>

notChunk ==
    <<codecVars, recvVars, linkVars, threadVars, timeoutVars, sendVars, waitVars, rttVars, bwVars, roverVars, extractVars, latVars>>

notLink ==
    <<codecVars, recvVars, chunkVars, threadVars, timeoutVars, sendVars, waitVars, rttVars, bwVars, roverVars, extractVars, latVars>>

\* what the rover's step that counts a header leaves alone
notLinkRover ==
    <<codecVars, recvVars, chunkVars, threadVars, timeoutVars, sendVars, waitVars, rttVars, bwVars, extractVars, latVars>>

notExtract ==
    <<codecVars, recvVars, chunkVars, linkVars, threadVars, timeoutVars, sendVars, waitVars, rttVars, bwVars, roverVars, latVars>>

notLatency ==
    <<codecVars, recvVars, chunkVars, linkVars, threadVars, timeoutVars, sendVars, waitVars, rttVars, bwVars, roverVars, extractVars>>

notThreads ==
    <<codecVars, recvVars, chunkVars, linkVars, timeoutVars, sendVars, waitVars, rttVars, bwVars, roverVars, extractVars, latVars>>

notTimeout ==
    <<codecVars, recvVars, chunkVars, linkVars, threadVars, sendVars, waitVars, rttVars, bwVars, roverVars, extractVars, latVars>>

notSend ==
    <<codecVars, recvVars, chunkVars, linkVars, threadVars, timeoutVars, waitVars, rttVars, bwVars, roverVars, extractVars, latVars>>

notWait ==
    <<codecVars, recvVars, chunkVars, linkVars, threadVars, timeoutVars, sendVars, rttVars, bwVars, roverVars, extractVars, latVars>>

notRtt ==
    <<codecVars, recvVars, chunkVars, linkVars, threadVars, timeoutVars, sendVars, waitVars, bwVars, roverVars, extractVars, latVars>>

notBandwidth ==
    <<codecVars, recvVars, chunkVars, linkVars, threadVars, timeoutVars, sendVars, waitVars, rttVars, roverVars, extractVars, latVars>>

----------------------------------------------------------------------------
(* Bounds of the model *)

\* longest payload drawn from PayloadBytes
MaxPayload == 2

\* most bytes cut from one end of a message before it is parsed
MaxCut == 3

\* most frames the peer sends to the receive loop
MaxFrames == 2

\* last reading of the node's clock
MaxClock == 1

\* longest small byte string handed to chunked_send
MaxData == 4

\* largest small chunk size handed to chunked_send
MaxChunk == 2

\* most faults of the link in one run: a byte lost, corrupted or held back
MaxFaults == 1

\* iterations per size in the linked run (self.iterations)
LinkIterations == 1

\* the time, in milliseconds, past which the linked run is not followed
MaxTime == 31000

\* most PINGs one latency test sends before its duration is over
MaxPings == 1

\* most PINGs the peer sends to the node
MaxPeerPings == 1

\* most packets test_throughput writes before its duration is over
MaxPackets == 2

\* bytes of garbage before a frame
MaxGarbage == 2

\* bytes of 0, '#' and '$' in the buffer the extraction loop starts from
MaxBuffer == 5

\* test_latency is called with at most so many packets
MaxLatencyTests == 3

\* and with packets of at most so many bytes
MaxPacketSize == 3

\* calls of send_message one after the other
MaxSends == 3

\* the largest expected_size of a call of receive_data_with_timeout
MaxExpected == 2

\* the longest timeout of a call, in ticks
MaxWait == 2

\* bytes that reach the port during a call
MaxArrive == 3

\* ticks a step of an iteration takes at most
MaxDelay == 2

\* PONG frames that reach a node, more than latency_measurements can hold
MaxPongs == 1002

\* iterations per size in the run in which the rover has to find the
\* boundaries again (self.iterations)
ResyncIterations == 2

\* most DATA frames run_bandwidth_test sends before its duration is over
MaxBurst == 2

\* times the clock of the machine is set back during an iteration
MaxSetBack == 1

\* the payload sizes 0..MaxTimeoutSize have their timeout derived, besides
\* the sizes under test
MaxTimeoutSize == 8

----------------------------------------------------------------------------
(* Python's bytes and struct, as far as the program uses them *)

Min(a, b) == IF a < b THEN a ELSE b

Max(a, b) == IF a > b THEN a ELSE b

\* a slice index as Python normalises it: negative counts from the end
PyIndex(s, i) == IF i < 0 THEN Max(Len(s) + i, 0) ELSE Min(i, Len(s))

\* s[a:b]
PySlice(s, a, b) ==
    LET lo == PyIndex(s, a)
        hi == PyIndex(s, b)
    IN  IF hi <= lo THEN <<>> ELSE SubSeq(s, lo + 1, hi)

\* s[a:]
PyFrom(s, a) == PySlice(s, a, Len(s))

\* s.startswith(p)
StartsWith(s, p) == Len(s) >= Len(p) /\ SubSeq(s, 1, Len(p)) = p

\* s.endswith(p)
EndsWith(s, p) == Len(s) >= Len(p) /\ SubSeq(s, Len(s) - Len(p) + 1, Len(s)) = p

\* reversed byte order
Reverse(s) == [i \in 1..Len(s) |-> s[Len(s) + 1 - i]]

\* n.to_bytes(k, "big")
RECURSIVE ToBytesBE(_, _)
ToBytesBE(n, k) == IF k = 0 THEN <<>> ELSE Append(ToBytesBE(n \div 256, k - 1), n % 256)

\* time.time() when the clock reads t: the double's bit pattern, most
\* significant byte first
time_time(t) == ToBytesBE(t, 8)

\* the outcome of an operation that raised
Raised == [kind |-> "raise"]

\* struct.pack('<d', x): the 8 bytes of the double, least significant first
struct_pack_d(x) == Reverse(x)

\* struct.unpack('>d', b)[0]: the bytes read most significant first
struct_unpack_d_BigEndian(b) == IF Len(b) = 8 THEN b ELSE <<>>

\* struct.unpack('<d', b)[0]; struct.error unless b holds 8 bytes
struct_unpack_d(b) == IF Len(b) = 8 THEN Reverse(b) ELSE <<>>

\* struct.pack('<H', n): 2 bytes, least significant first (n in 0..65535)
struct_pack_H(n) == <<n % 256, (n \div 256) % 256>>

\* struct.unpack('<H', b)[0]; struct.error (-1 here) unless b holds 2 bytes
struct_unpack_H(b) == IF Len(b) = 2 THEN b[1] + 256 * b[2] ELSE -1

----------------------------------------------------------------------------
(* XBeeBenchmark: the frame codec *)

START_MARKER == <<36, 36>>      \* b'$$'

END_MARKER == <<35, 35>>        \* b'##'

MSG_PING == <<80, 73, 78, 71>>  \* b'PING'

MSG_PONG == <<80, 79, 78, 71>>  \* b'PONG'

MSG_DATA == <<68, 65, 84, 65>>  \* b'DATA'

MSG_SYNC == <<83, 89, 78, 67>>  \* b'SYNC'

MSG_RESULT == <<82, 83, 76, 84>> \* b'RSLT'

MsgTypes == {MSG_PING, MSG_PONG, MSG_DATA, MSG_SYNC, MSG_RESULT}

\* parse_message's "Minimum message size": type, id, timestamp, size
MIN_CONTENT == 15

\* the value parse_message returns for a malformed message
None == [kind |-> "None"]

\* create_message with the end marker left off
create_message_NoEndMarker(node_id, msg_type, data_size, payload, t) ==
    START_MARKER \o msg_type \o <<node_id>> \o struct_pack_d(time_time(t))
        \o struct_pack_H(data_size)
        \o (IF payload = <<>> THEN [i \in 1..data_size |-> 88] ELSE payload[1])

\* An optional payload argument: <<>> is None, <<p>> is the bytes p.
\* create_message(msg_type, data_size, payload) of the node node_id when the
\* clock reads t.
create_message(node_id, msg_type, data_size, payload, t) ==
    LET timestamp == struct_pack_d(time_time(t))
        nid == <<node_id>>
        data_size_packed == struct_pack_H(data_size)
        body == IF payload = <<>> THEN [i \in 1..data_size |-> 88] ELSE payload[1]
    IN  START_MARKER \o msg_type \o nid \o timestamp \o data_size_packed
            \o body \o END_MARKER

\* parse_try without the test of the end marker
parse_try_NoEndMarker(data, t) ==
    IF ~StartsWith(data, START_MARKER) THEN None
    ELSE LET content == PySlice(data, 2, -2) IN
         IF Len(content) < MIN_CONTENT THEN None
         ELSE LET data_size == struct_unpack_H(PySlice(content, 13, 15)) IN
              [kind |-> "msg",
               type |-> PySlice(content, 0, 4),
               node_id |-> content[5],
               timestamp |-> struct_unpack_d(PySlice(content, 5, 13)),
               data_size |-> data_size,
               payload |-> IF data_size > 0
                           THEN PySlice(content, 15, 15 + data_size)
                           ELSE <<>>,
               rx_time |-> time_time(t)]

\* the statements of parse_message inside its try block, when the clock
\* reads t; Raised where one of them raises
parse_try(data, t) ==
    IF ~StartsWith(data, START_MARKER) \/ ~EndsWith(data, END_MARKER) THEN None
    ELSE LET content == PySlice(data, 2, -2) IN
         IF Len(content) < MIN_CONTENT THEN None
         ELSE LET msg_type == PySlice(content, 0, 4)
                  stamp == PySlice(content, 5, 13)
                  size == PySlice(content, 13, 15)
              IN  IF Len(content) < 5 \/ Len(stamp) # 8 \/ Len(size) # 2 THEN Raised
                  ELSE LET data_size == struct_unpack_H(size) IN
                       [kind |-> "msg",
                        type |-> msg_type,
                        node_id |-> content[5],
                        timestamp |-> struct_unpack_d(stamp),
                        data_size |-> data_size,
                        payload |-> IF data_size > 0
                                    THEN PySlice(content, 15, 15 + data_size)
                                    ELSE <<>>,
                        rx_time |-> time_time(t)]

\* parse_message(data): the try block, with every exception turned into None
parse_message(data, t) ==
    LET r == parse_try(data, t) IN IF r = Raised THEN None ELSE r

----------------------------------------------------------------------------
(* SpecCodec: create_message and parse_message on bounded inputs *)

\* bytes a payload is drawn from: '#', '$', 'X'
PayloadBytes == {35, 36, 88}

\* the longest payload the 2-byte size field can declare
BigPayload == [i \in 1..65535 |-> 88]

PayloadSet == UNION {[1..n -> PayloadBytes] : n \in 0..MaxPayload} \cup {BigPayload}

\* node ids: 'A', 'B'
NodeIds == {65, 66}

\* clock readings; 8995 is 0x2323, whose packed bytes hold b'##'
StampSet == {1, 8995}

\* bytes written over a message byte: 0, '#', '$'
MangleBytes == {0, 35, 36}

\* declared sizes: small ones, 8995 (0x2323, packed as b'##') and the largest
DeclaredSizes == 0..(MaxPayload + 1) \cup {8995, 65535}

CodecInputs ==
    { [msg_type |-> ty, node_id |-> n, payload |-> p, data_size |-> d, t |-> t] :
        ty \in MsgTypes, n \in NodeIds, p \in PayloadSet,
        d \in DeclaredSizes, t \in StampSet }

IdleCodec ==
    /\ c_in = <<>>
    /\ c_data = <<>>
    /\ c_out = None
    /\ c_pc = "off"

InitCodec ==
    /\ c_in \in { i \in CodecInputs :
                    \/ i.data_size = Len(i.payload)
                    \/ Len(i.payload) <= MaxPayload }
    /\ c_data = <<>>
    /\ c_out = None
    /\ c_pc = "new"

\* message = self.create_message(msg_type, data_size, payload)
CodecCreate ==
    /\ c_pc = "new"
    /\ c_data' = create_message(c_in.node_id, c_in.msg_type, c_in.data_size,
                                <<c_in.payload>>, c_in.t)
    /\ c_pc' = "built"
    /\ UNCHANGED <<c_in, c_out>>
    /\ UNCHANGED notCodec

\* the link overwrites one byte of the message
CodecOverwrite ==
    /\ c_pc = "built"
    /\ Len(c_data) <= MIN_CONTENT + 4 + MaxPayload
    /\ \E i \in 1..Len(c_data), b \in MangleBytes :
         /\ c_data[i] # b
         /\ c_data' = [c_data EXCEPT ![i] = b]
    /\ c_pc' = "mangled"
    /\ UNCHANGED <<c_in, c_out>>
    /\ UNCHANGED notCodec

\* the link loses the first or the last n bytes of the message
CodecCut ==
    /\ c_pc = "built"
    /\ \E n \in 1..MaxCut :
         \/ c_data' = PyFrom(c_data, n)
         \/ c_data' = PySlice(c_data, 0, Len(c_data) - n)
    /\ c_pc' = "mangled"
    /\ UNCHANGED <<c_in, c_out>>
    /\ UNCHANGED notCodec

\* parsed = self.parse_message(message_data)
CodecParse ==
    /\ c_pc \in {"built", "mangled"}
    /\ c_out' = parse_message(c_data, c_in.t)
    /\ c_pc' = "parsed"
    /\ UNCHANGED <<c_in, c_data>>
    /\ UNCHANGED notCodec

NextCodec == CodecCreate \/ CodecOverwrite \/ CodecCut \/ CodecParse

----------------------------------------------------------------------------
(* XBeeBenchmark: sending, the receive loop and its handlers *)

\* deque(maxlen=1000)
LATENCY_MAXLEN == 1000

\* the originator id of the node and of its peer: 'A', 'B'
NODE_ID == 65

PEER_ID == NODE_ID + 1

\* p in s
Contains(s, p) == \E k \in 0..(Len(s) - Len(p)) : SubSeq(s, k + 1, k + Len(p)) = p

\* s.find(p, from): the lowest index at or after from where p occurs, or -1
Find(s, p, from) ==
    LET hits == {k \in from..(Len(s) - Len(p)) : SubSeq(s, k + 1, k + Len(p)) = p}
    IN  IF hits = {} THEN -1 ELSE CHOOSE k \in hits : \A j \in hits : k <= j

\* append on a list, which has no maxlen
deque_append_Unbounded(q, x) == Append(q, x)

\* deque.append(x) on a deque of maxlen LATENCY_MAXLEN
deque_append(q, x) ==
    IF Len(q) >= LATENCY_MAXLEN THEN Append(Tail(q), x) ELSE Append(q, x)

\* The node's state as the receive thread changes it:
\*   [buffer, tx_bytes, latency_measurements, written, dispatched].
\* send_message(msg_type, data_size, payload) when the clock reads t
send_message(st, msg_type, data_size, payload, t) ==
    IF ~serial_open THEN st
    ELSE LET message == create_message(NODE_ID, msg_type, data_size, payload, t)
             bytes_sent == Len(message)
         IN  [st EXCEPT !.written = Append(@, message),
                        !.tx_bytes = @ + bytes_sent]

\* the handler answering a PONG as it answers a PING
handle_received_message_AnswerPong(st, message, t) ==
    LET st1 == [st EXCEPT !.dispatched = Append(@, message)] IN
    IF message.type \in {MSG_PING, MSG_PONG}
        THEN send_message(st1, MSG_PONG, message.data_size, <<message.payload>>, t)
    ELSE st1

\* handle_received_message(message) when the clock reads t
handle_received_message(st, message, t) ==
    LET st1 == [st EXCEPT !.dispatched = Append(@, message)] IN
    IF message.type = MSG_PING
        THEN send_message(st1, MSG_PONG, message.data_size, <<message.payload>>, t)
    ELSE IF message.type = MSG_PONG
        THEN [st1 EXCEPT !.latency_measurements =
                 deque_append(@, [rx_time |-> message.rx_time,
                                  timestamp |-> message.timestamp])]
    ELSE st1

\* the "Process complete messages" loop of receive_messages
RECURSIVE process_buffer(_, _)
process_buffer(st, t) ==
    IF Contains(st.buffer, START_MARKER) /\ Contains(st.buffer, END_MARKER)
    THEN LET start == Find(st.buffer, START_MARKER, 0)
             end == Find(st.buffer, END_MARKER, start)
         IN  IF end # -1
             THEN LET message_data == PySlice(st.buffer, start, end + 2)
                      st1 == [st EXCEPT !.buffer = PyFrom(st.buffer, end + 2)]
                      parsed == parse_message(message_data, t)
                  IN  process_buffer(IF parsed # None
                                     THEN handle_received_message(st1, parsed, t)
                                     ELSE st1, t)
             ELSE st
    ELSE st

----------------------------------------------------------------------------
(* SpecRecv: the receive thread of one node, fed by its peer *)

IdleRecv ==
    /\ running = FALSE
    /\ serial_open = FALSE
    /\ air = <<>>
    /\ in_waiting = <<>>
    /\ buffer = <<>>
    /\ rx_bytes = 0
    /\ tx_bytes = 0
    /\ latency_measurements = <<>>
    /\ written = <<>>
    /\ dispatched = <<>>
    /\ peer_frames = <<>>
    /\ clock = 0

\* start(): connect() succeeded, running = True, the receive thread starts
Start ==
    /\ ~running
    /\ ~serial_open
    /\ serial_open' = TRUE
    /\ running' = TRUE
    /\ UNCHANGED <<air, in_waiting, buffer, rx_bytes, tx_bytes,
                   latency_measurements, written, dispatched, peer_frames, clock>>
    /\ UNCHANGED notRecv

\* frame types the peer sends to the receive loop
PeerTypes == {MSG_PING, MSG_PONG, MSG_DATA}

\* what the peer's frames carry: a payload p and the clock reading t of the
\* peer when it built the frame.  b'X' at 1; nothing at 8995, whose packed
\* timestamp holds b'##'; b'##' at 1.
PeerCases ==
    {[p |-> <<88>>, t |-> 1], [p |-> <<>>, t |-> 8995], [p |-> <<35, 35>>, t |-> 1]}

\* the peer's send_message: it builds a frame with create_message when its
\* own clock reads t and writes it to the link
PeerSendOf(types, cases) ==
    /\ running
    /\ Len(peer_frames) < MaxFrames
    /\ \E ty \in types, c \in cases :
         LET p == c.p
             t == c.t
             message == create_message(PEER_ID, ty, Len(p), <<p>>, t) IN
         /\ air' = air \o message
         /\ peer_frames' = Append(peer_frames,
                [type |-> ty, node_id |-> PEER_ID, timestamp |-> time_time(t),
                 payload |-> p])
    /\ UNCHANGED <<running, serial_open, in_waiting, buffer, rx_bytes, tx_bytes,
                   latency_measurements, written, dispatched, clock>>
    /\ UNCHANGED notRecv

PeerSend == PeerSendOf(PeerTypes, PeerCases)

\* the peer sends a frame of any of the five types, with the payload b'X'
PeerSendAny == PeerSendOf(MsgTypes, {[p |-> <<88>>, t |-> 1]})

\* bytes in flight reach the port: all of them, or all but the last one
Arrive ==
    /\ air # <<>>
    /\ \E n \in {Len(air), Len(air) - 1} \ {0} :
         /\ in_waiting' = in_waiting \o SubSeq(air, 1, n)
         /\ air' = PyFrom(air, n)
    /\ UNCHANGED <<running, serial_open, buffer, rx_bytes, tx_bytes,
                   latency_measurements, written, dispatched, peer_frames, clock>>
    /\ UNCHANGED notRecv

\* one pass of receive_messages' loop with bytes waiting: read them all,
\* append them to the buffer, extract and handle the complete messages
ReceivePoll ==
    /\ running
    /\ serial_open
    /\ Len(in_waiting) > 0
    /\ LET data == in_waiting
           st == process_buffer(
                    [buffer |-> buffer \o data,
                     tx_bytes |-> tx_bytes,
                     latency_measurements |-> latency_measurements,
                     written |-> written,
                     dispatched |-> dispatched], clock)
       IN  /\ in_waiting' = <<>>
           /\ rx_bytes' = rx_bytes + Len(data)
           /\ buffer' = st.buffer
           /\ tx_bytes' = st.tx_bytes
           /\ latency_measurements' = st.latency_measurements
           /\ written' = st.written
           /\ dispatched' = st.dispatched
    /\ UNCHANGED <<running, serial_open, air, peer_frames, clock>>
    /\ UNCHANGED notRecv

\* one pass of the loop with nothing waiting: time.sleep(0.001)
ReceiveIdle ==
    /\ running
    /\ serial_open
    /\ Len(in_waiting) = 0
    /\ UNCHANGED recvVars
    /\ UNCHANGED notRecv

\* the node's clock advances
ClockTick ==
    /\ running
    /\ clock < MaxClock
    /\ clock' = clock + 1
    /\ UNCHANGED <<running, serial_open, air, in_waiting, buffer, rx_bytes,
                   tx_bytes, latency_measurements, written, dispatched, peer_frames>>
    /\ UNCHANGED notRecv

NextRecv == Start \/ PeerSend \/ Arrive \/ ReceivePoll \/ ReceiveIdle \/ ClockTick

\* byte strings over 0, '#', '$' of up to n bytes
RECURSIVE GarbageUpTo(_)
GarbageUpTo(n) ==
    IF n = 0 THEN {<<>>}
    ELSE GarbageUpTo(n - 1) \cup
         {Append(g, b) : g \in {h \in GarbageUpTo(n - 1) : Len(h) = n - 1}, b \in MangleBytes}

\* a frame of the peer cut off after its type or inside its timestamp
TruncatedFrames ==
    {SubSeq(create_message(PEER_ID, MSG_DATA, 0, <<>>, 1), 1, n) : n \in {6, 9}}

\* what is on the link before the frame
GarbagePrefixes == GarbageUpTo(MaxGarbage) \cup TruncatedFrames

\* the receive thread is running on an open port, and the link carries a
\* garbage prefix followed by one well-formed frame of the peer: payload
\* b'X', built when the peer's clock read 1
InitResync ==
    /\ running = TRUE
    /\ serial_open = TRUE
    /\ in_waiting = <<>>
    /\ buffer = <<>>
    /\ rx_bytes = 0
    /\ tx_bytes = 0
    /\ latency_measurements = <<>>
    /\ written = <<>>
    /\ dispatched = <<>>
    /\ clock = 0
    /\ \E g \in GarbagePrefixes, ty \in PeerTypes :
         /\ air = g \o create_message(PEER_ID, ty, 1, <<<<88>>>>, 1)
         /\ peer_frames = <<[type |-> ty, node_id |-> PEER_ID,
                             timestamp |-> time_time(1), payload |-> <<88>>]>>

NextResync == Arrive \/ ReceivePoll \/ ReceiveIdle \/ ClockTick

\* the receive thread is running on an open port; nothing has arrived
InitPongs ==
    /\ running = TRUE
    /\ serial_open = TRUE
    /\ air = <<>>
    /\ in_waiting = <<>>
    /\ buffer = <<>>
    /\ rx_bytes = 0
    /\ tx_bytes = 0
    /\ latency_measurements = <<>>
    /\ written = <<>>
    /\ dispatched = <<>>
    /\ peer_frames = <<>>
    /\ clock = 0

\* a PONG of the peer reaches the port, the one before having been read
PongArrives ==
    /\ running
    /\ in_waiting = <<>>
    /\ Len(dispatched) < MaxPongs
    /\ in_waiting' = create_message(PEER_ID, MSG_PONG, 0, <<>>, 1)
    /\ UNCHANGED <<running, serial_open, air, buffer, rx_bytes, tx_bytes,
                   latency_measurements, written, dispatched, peer_frames, clock>>
    /\ UNCHANGED notRecv

NextPongs == PongArrives \/ ReceivePoll

----------------------------------------------------------------------------
(* RFBandwidthTester: the paced transmitter *)

\* bytes per write chunk
CHUNK_SIZE == 256

\* self.test_sizes
test_sizes == <<64, 128, 256, 512, 1024>>

\* b"ABCDEFGHIJKLMNOPQRSTUVWXYZ0123456789"
PATTERN ==
    <<65, 66, 67, 68, 69, 70, 71, 72, 73, 74, 75, 76, 77, 78, 79, 80, 81, 82,
      83, 84, 85, 86, 87, 88, 89, 90, 48, 49, 50, 51, 52, 53, 54, 55, 56, 57>>

\* generate_test_data(size): the pattern repeated, cut to size bytes
generate_test_data(size) ==
    [i \in 1..size |-> PATTERN[((i - 1) % Len(PATTERN)) + 1]]

\* What self.ser.write(chunk) may report through send_data: the whole chunk,
\* a positive short count, 0, or -1 (the port is closed or the write raised).
WriteOutcomes(chunk) ==
    {n \in {-1, 0, 1, Len(chunk) - 1, Len(chunk)} : n <= Len(chunk)}

\* chunk = data[idx:end] with the end one byte early
chunk_of_OneShort(data, idx, chunk_size) ==
    PySlice(data, idx, Min(idx + chunk_size, Len(data)) - 1)

\* end = min(idx + chunk_size, len(data)); chunk = data[idx:end]
chunk_of(data, idx, chunk_size) ==
    PySlice(data, idx, Min(idx + chunk_size, Len(data)))

\* an entry of the log: a write of chunk of which the stream accepted
\* `accepted` bytes, or a sleep of gap_s
WriteEntry(chunk, accepted) == [op |-> "write", chunk |-> chunk, accepted |-> accepted]

SleepEntry == [op |-> "sleep", chunk |-> <<>>, accepted |-> 0]

----------------------------------------------------------------------------
(* SpecChunk: chunked_send on bounded inputs and write outcomes *)

IdleChunk ==
    /\ cs_data = <<>>
    /\ cs_chunk_size = 0
    /\ cs_idx = 0
    /\ cs_total = 0
    /\ cs_ret = -2
    /\ cs_log = <<>>
    /\ cs_pc = "off"

\* the calls made: short data with small chunk sizes, and the test sizes and
\* the 600-byte scenario with the default chunk size
ChunkCalls ==
    {<<n, c>> : n \in 0..MaxData, c \in 1..MaxChunk}
        \cup {<<test_sizes[k], CHUNK_SIZE>> : k \in 1..Len(test_sizes)}
        \cup {<<600, CHUNK_SIZE>>}

\* chunked_send(data, chunk_size) has been called: total_written = 0, idx = 0
InitChunk ==
    /\ \E call \in ChunkCalls :
         /\ cs_data = generate_test_data(call[1])
         /\ cs_chunk_size = call[2]
    /\ cs_idx = 0
    /\ cs_total = 0
    /\ cs_ret = -2
    /\ cs_log = <<>>
    /\ cs_pc = "loop"

\* one pass of the while loop whose write is accepted, in full or in part:
\* total_written += written; idx = end; time.sleep(gap_s)
ChunkWrite ==
    /\ cs_pc = "loop"
    /\ cs_idx < Len(cs_data)
    /\ LET chunk == chunk_of(cs_data, cs_idx, cs_chunk_size) IN
       \E written_n \in WriteOutcomes(chunk) :
         /\ written_n > 0
         /\ cs_total' = cs_total + written_n
         /\ cs_idx' = Min(cs_idx + cs_chunk_size, Len(cs_data))
         /\ cs_log' = cs_log \o <<WriteEntry(chunk, written_n), SleepEntry>>
    /\ UNCHANGED <<cs_data, cs_chunk_size, cs_ret, cs_pc>>
    /\ UNCHANGED notChunk

\* one pass of the while loop whose write reports 0 or fails (written <= 0):
\* break, return total_written
ChunkBreak ==
    /\ cs_pc = "loop"
    /\ cs_idx < Len(cs_data)
    /\ LET chunk == chunk_of(cs_data, cs_idx, cs_chunk_size) IN
       \E written_n \in WriteOutcomes(chunk) :
         /\ written_n <= 0
         /\ cs_log' = Append(cs_log, WriteEntry(chunk, written_n))
    /\ cs_ret' = cs_total
    /\ cs_pc' = "done"
    /\ UNCHANGED <<cs_data, cs_chunk_size, cs_idx, cs_total>>
    /\ UNCHANGED notChunk

\* the loop ends (idx >= len(data)): return total_written
ChunkReturn ==
    /\ cs_pc = "loop"
    /\ cs_idx >= Len(cs_data)
    /\ cs_ret' = cs_total
    /\ cs_pc' = "done"
    /\ UNCHANGED <<cs_data, cs_chunk_size, cs_idx, cs_total, cs_log>>
    /\ UNCHANGED notChunk

NextChunk == ChunkWrite \/ ChunkBreak \/ ChunkReturn

----------------------------------------------------------------------------
(* RFBandwidthTester: the bounded receiver, the handshake and run_test *)

\* b"ACK"
ACK_BYTES == <<65, 67, 75>>

\* sync_msg = b"SYNC_READY"
SYNC_MSG == <<83, 89, 78, 67, 95, 82, 69, 65, 68, 89>>

\* the timeouts of wait_for_sync, in milliseconds: base, rover
SYNC_TIMEOUT_BASE == 5000

SYNC_TIMEOUT_ROVER == 30000

\* the timeout of the rover's wait for a size header, in milliseconds
HEADER_TIMEOUT == 30000

\* receive_data_with_timeout reads at most this many bytes at once
READ_MAX == 4096

\* self.baudrate
BAUDRATE == 115200

\* the sizes under test in the linked run (self.test_sizes)
link_sizes == <<1>>

Endpoints == {"base", "rover"}

Peer(e) == IF e = "base" THEN "rover" ELSE "base"

\* estimate_tx_time(size), in milliseconds rounded down: ten bits per byte
\* at the baud rate, plus a guard of 1 ms
estimate_tx_time(size) ==
    (size \div BAUDRATE) * 10000 + ((size % BAUDRATE) * 10000) \div BAUDRATE + 1

\* ack_wait_timeout = max(0.5, est_tx_s * 3 + 0.2), in milliseconds
ack_wait_timeout(size) == Max(500, estimate_tx_time(size) * 3 + 200)

\* timeout_for_payload = max(1.0, estimate_tx_time(expected_size) * 3 + 0.5)
timeout_for_payload(size) == Max(1000, estimate_tx_time(size) * 3 + 500)

\* int.from_bytes(b, "big")
RECURSIVE FromBytesBE(_)
FromBytesBE(b) ==
    IF b = <<>> THEN 0 ELSE FromBytesBE(SubSeq(b, 1, Len(b) - 1)) * 256 + b[Len(b)]

\* the chunks chunked_send writes from idx on when every write is accepted
RECURSIVE chunks_from(_, _, _)
chunks_from(data, idx, chunk_size) ==
    IF idx >= Len(data) THEN <<>>
    ELSE <<chunk_of(data, idx, chunk_size)>>
            \o chunks_from(data, Min(idx + chunk_size, Len(data)), chunk_size)

\* bytes strung together
RECURSIVE Concat(_)
Concat(ss) == IF ss = <<>> THEN <<>> ELSE Head(ss) \o Concat(Tail(ss))

\* no call of receive_data_with_timeout
NoRecv == [expected |-> 0, start |-> 0, deadline |-> 0, received |-> <<>>, last |-> 0]

\* receive_data_with_timeout(expected_size, timeout) entered at time t:
\* start_ns, deadline_ns, received = bytearray(), last_recv_ts = 0
recv_enter(expected_size, timeout, t) ==
    [expected |-> expected_size, start |-> t, deadline |-> t + timeout,
     received |-> <<>>, last |-> 0]

\* the loop of receive_data_with_timeout going on until the bytes are there
recv_over_NoDeadline(r, t) == Len(r.received) >= r.expected

\* the loop of receive_data_with_timeout has ended for the call r at time t
recv_over(r, t) == t >= r.deadline \/ Len(r.received) >= r.expected

\* the bytes receive_data_with_timeout returns
recv_bytes(r) == r.received

\* the places of run_test where receive_data_with_timeout is running
WaitPcs == {"sync_wait", "ack_wait", "hdr_wait", "payload_wait"}

----------------------------------------------------------------------------
(* SpecLink: a base and a rover running run_test over a lossy link *)

IdleLink ==
    /\ pc = [e \in Endpoints |-> "off"]
    /\ port = [e \in Endpoints |-> FALSE]
    /\ wire = [e \in Endpoints |-> <<>>]
    /\ rxq = [e \in Endpoints |-> <<>>]
    /\ rcv = [e \in Endpoints |-> NoRecv]
    /\ sync = [e \in Endpoints |-> "Idle"]
    /\ result = [e \in Endpoints |-> "none"]
    /\ sent = [e \in Endpoints |-> <<>>]
    /\ now = 1
    /\ faults = 0
    /\ size_i = 1
    /\ it = 0
    /\ tx_start = 0
    /\ samples = <<>>
    /\ expected = 0

\* both testers constructed, run_test not yet called
InitLink ==
    /\ pc = [e \in Endpoints |-> "init"]
    /\ port = [e \in Endpoints |-> FALSE]
    /\ wire = [e \in Endpoints |-> <<>>]
    /\ rxq = [e \in Endpoints |-> <<>>]
    /\ rcv = [e \in Endpoints |-> NoRecv]
    /\ sync = [e \in Endpoints |-> "Idle"]
    /\ result = [e \in Endpoints |-> "none"]
    /\ sent = [e \in Endpoints |-> <<>>]
    /\ now = 1
    /\ faults = 0
    /\ size_i = 1
    /\ it = 0
    /\ tx_start = 0
    /\ samples = <<>>
    /\ expected = 0

\* self.ser.write(data) by e: the bytes go on the link towards the peer
Write(e, data) ==
    /\ sent' = [sent EXCEPT ![e] = Append(@, data)]
    /\ wire' = [wire EXCEPT ![Peer(e)] = @ \o data]

\* run_test: connect() succeeds
Connect(e) ==
    /\ pc[e] = "init"
    /\ port' = [port EXCEPT ![e] = TRUE]
    /\ pc' = [pc EXCEPT ![e] = "sync"]
    /\ UNCHANGED <<wire, rxq, rcv, sync, result, sent, now, faults,
                   size_i, it, tx_start, samples, expected>>
    /\ UNCHANGED notLink

\* run_test: connect() fails, return False
ConnectFails(e) ==
    /\ pc[e] = "init"
    /\ pc' = [pc EXCEPT ![e] = "done"]
    /\ result' = [result EXCEPT ![e] = "False"]
    /\ UNCHANGED <<port, wire, rxq, rcv, sync, sent, now, faults,
                   size_i, it, tx_start, samples, expected>>
    /\ UNCHANGED notLink

\* wait_for_sync, base: reset_input_buffer, write sync_msg, flush, enter
\* receive_data_with_timeout(len(sync_msg), 5.0)
BaseSyncSend ==
    /\ pc["base"] = "sync"
    /\ port["base"]
    /\ rxq' = [rxq EXCEPT !["base"] = <<>>]
    /\ Write("base", SYNC_MSG)
    /\ rcv' = [rcv EXCEPT !["base"] = recv_enter(Len(SYNC_MSG), SYNC_TIMEOUT_BASE, now)]
    /\ sync' = [sync EXCEPT !["base"] = "Waiting"]
    /\ pc' = [pc EXCEPT !["base"] = "sync_wait"]
    /\ UNCHANGED <<port, result, now, faults, size_i, it, tx_start, samples, expected>>
    /\ UNCHANGED notLink

\* wait_for_sync, rover: enter receive_data_with_timeout(len(sync_msg), 30.0)
RoverSyncWait ==
    /\ pc["rover"] = "sync"
    /\ port["rover"]
    /\ rcv' = [rcv EXCEPT !["rover"] = recv_enter(Len(SYNC_MSG), SYNC_TIMEOUT_ROVER, now)]
    /\ sync' = [sync EXCEPT !["rover"] = "Waiting"]
    /\ pc' = [pc EXCEPT !["rover"] = "sync_wait"]
    /\ UNCHANGED <<port, wire, rxq, result, sent, now, faults,
                   size_i, it, tx_start, samples, expected>>
    /\ UNCHANGED notLink

\* one pass of receive_data_with_timeout's loop in which self.ser.read
\* returns bytes: received.extend(chunk), last_recv_ts = time.time_ns()
RecvPoll(e) ==
    /\ pc[e] \in WaitPcs
    /\ ~recv_over(rcv[e], now)
    /\ rxq[e] # <<>>
    /\ LET to_read == Min(rcv[e].expected - Len(rcv[e].received), READ_MAX)
           chunk == PySlice(rxq[e], 0, to_read)
       IN  /\ rcv' = [rcv EXCEPT ![e].received = @ \o chunk, ![e].last = now]
           /\ rxq' = [rxq EXCEPT ![e] = PyFrom(@, Len(chunk))]
    /\ UNCHANGED <<pc, port, wire, sync, result, sent, now, faults,
                   size_i, it, tx_start, samples, expected>>
    /\ UNCHANGED notLink

\* one pass of the loop in which self.ser.read returns nothing:
\* time.sleep(0.001)
RecvSleep(e) ==
    /\ pc[e] \in WaitPcs
    /\ ~recv_over(rcv[e], now)
    /\ rxq[e] = <<>>
    /\ UNCHANGED linkVars
    /\ UNCHANGED notLink

\* what is left alone by an action of the handshake or of the rover
BaseTestVars == <<size_i, it, tx_start, samples>>

\* the base taking any ten bytes for the echo
base_sync_matches_AnyBytes(received) == Len(received) = Len(SYNC_MSG)

\* the base taking the end of its wait for the echo
base_sync_matches_Always(received) == TRUE

\* wait_for_sync, base: received == sync_msg
base_sync_matches(received) == received = SYNC_MSG

\* run_test going on to test_as_base whatever wait_for_sync returned
base_after_sync_Ignored(synced) == "iter"

\* run_test, base: wait_for_sync returned True: test_as_base; otherwise
\* return False through the finally clause
base_after_sync(synced) == IF synced THEN "iter" ELSE "finally_fail"

BaseSyncReturn ==
    /\ pc["base"] = "sync_wait"
    /\ recv_over(rcv["base"], now)
    /\ LET synced == base_sync_matches(recv_bytes(rcv["base"])) IN
       /\ sync' = [sync EXCEPT !["base"] = IF synced THEN "Ready" ELSE "Failed"]
       /\ pc' = [pc EXCEPT !["base"] = base_after_sync(synced)]
    /\ UNCHANGED <<port, wire, rxq, rcv, result, sent, now, faults, expected>>
    /\ UNCHANGED BaseTestVars
    /\ UNCHANGED notLink

\* the rover echoing whatever the wait returned
rover_sync_matches_Always(received) == TRUE

\* wait_for_sync, rover: received == sync_msg
rover_sync_matches(received) == received = SYNC_MSG

\* wait_for_sync, rover: the wait is over.  received == sync_msg: write
\* sync_msg, flush, return True; otherwise return False

RoverSyncReturn ==
    /\ pc["rover"] = "sync_wait"
    /\ recv_over(rcv["rover"], now)
    /\ IF rover_sync_matches(recv_bytes(rcv["rover"]))
       THEN /\ Write("rover", SYNC_MSG)
            /\ sync' = [sync EXCEPT !["rover"] = "Ready"]
            /\ pc' = [pc EXCEPT !["rover"] = "hdr"]
       ELSE /\ sync' = [sync EXCEPT !["rover"] = "Failed"]
            /\ pc' = [pc EXCEPT !["rover"] = "finally_fail"]
            /\ UNCHANGED <<sent, wire>>
    /\ UNCHANGED <<port, rxq, rcv, result, now, faults, expected>>
    /\ UNCHANGED BaseTestVars
    /\ UNCHANGED notLink

\* test_as_base, start of an iteration: reset_input_buffer if bytes are
\* waiting, send the 4-byte size header, time.sleep(0.02)
BaseIterBeginOf(iterations) ==
    /\ pc["base"] = "iter"
    /\ it < iterations
    /\ rxq' = [rxq EXCEPT !["base"] = <<>>]
    /\ Write("base", ToBytesBE(link_sizes[size_i], 4))
    /\ it' = it + 1
    /\ pc' = [pc EXCEPT !["base"] = "payload"]
    /\ UNCHANGED <<port, rcv, sync, result, now, faults, size_i, tx_start,
                   samples, expected>>
    /\ UNCHANGED notLink

BaseIterBegin == BaseIterBeginOf(LinkIterations)

\* test_as_base: tx_start_ns, chunked_send(test_data), the wait for on-air
\* time, then receive_data_with_timeout(len(ACK_BYTES), ack_wait_timeout)
BaseSendPayload ==
    /\ pc["base"] = "payload"
    /\ LET size == link_sizes[size_i]
           chunks == chunks_from(generate_test_data(size), 0, CHUNK_SIZE)
       IN  /\ sent' = [sent EXCEPT !["base"] = @ \o chunks]
           /\ wire' = [wire EXCEPT !["rover"] = @ \o Concat(chunks)]
           /\ rcv' = [rcv EXCEPT !["base"] =
                         recv_enter(Len(ACK_BYTES), ack_wait_timeout(size), now)]
    /\ tx_start' = now
    /\ pc' = [pc EXCEPT !["base"] = "ack_wait"]
    /\ UNCHANGED <<port, rxq, sync, result, now, faults, size_i, it, samples, expected>>
    /\ UNCHANGED notLink

\* test_as_base: the wait for the ACK is over.  ack == ACK_BYTES with a last
\* byte time: a sample is appended; otherwise "No ACK or timeout".  Then the
\* next iteration, the next size, or save_results and return True.
BaseAckReturnOf(iterations) ==
    /\ pc["base"] = "ack_wait"
    /\ recv_over(rcv["base"], now)
    /\ LET ack == recv_bytes(rcv["base"])
           ack_last_ts == IF ack = <<>> THEN 0 ELSE rcv["base"].last
       IN  samples' = IF ack = ACK_BYTES /\ ack_last_ts # 0
                      THEN Append(samples, [size |-> link_sizes[size_i], it |-> it,
                                            tx_start |-> tx_start, last |-> ack_last_ts])
                      ELSE samples
    /\ IF it < iterations
       THEN /\ pc' = [pc EXCEPT !["base"] = "iter"]
            /\ UNCHANGED <<size_i, it>>
       ELSE IF size_i < Len(link_sizes)
       THEN /\ size_i' = size_i + 1
            /\ it' = 0
            /\ pc' = [pc EXCEPT !["base"] = "iter"]
       ELSE /\ pc' = [pc EXCEPT !["base"] = "finally_ok"]
            /\ UNCHANGED <<size_i, it>>
    /\ UNCHANGED <<port, wire, rxq, rcv, sync, result, sent, now, faults,
                   tx_start, expected>>
    /\ UNCHANGED notLink

BaseAckReturn == BaseAckReturnOf(LinkIterations)

\* test_as_rover: enter receive_data_with_timeout(4, timeout=30.0)
RoverHeaderWait ==
    /\ pc["rover"] = "hdr"
    /\ rcv' = [rcv EXCEPT !["rover"] = recv_enter(4, HEADER_TIMEOUT, now)]
    /\ pc' = [pc EXCEPT !["rover"] = "hdr_wait"]
    /\ UNCHANGED <<port, wire, rxq, sync, result, sent, now, faults, expected>>
    /\ UNCHANGED BaseTestVars
    /\ UNCHANGED notLink

\* test_as_rover: the wait for the header is over.  Fewer than 4 bytes:
\* continue; otherwise expected_size = int.from_bytes(size_data, "big") and
\* receive_data_with_timeout(expected_size, timeout_for_payload) is entered
RoverHeaderReturn ==
    /\ pc["rover"] = "hdr_wait"
    /\ recv_over(rcv["rover"], now)
    /\ LET size_data == recv_bytes(rcv["rover"]) IN
       IF Len(size_data) # 4
       THEN /\ pc' = [pc EXCEPT !["rover"] = "hdr"]
            /\ UNCHANGED <<rcv, expected>>
       ELSE LET expected_size == FromBytesBE(size_data) IN
            /\ expected' = expected_size
            /\ rcv' = [rcv EXCEPT !["rover"] =
                          recv_enter(expected_size, timeout_for_payload(expected_size), now)]
            /\ pc' = [pc EXCEPT !["rover"] = "payload_wait"]
    /\ UNCHANGED <<port, wire, rxq, sync, result, sent, now, faults>>
    /\ UNCHANGED BaseTestVars
    /\ rv_headers' = IF Len(recv_bytes(rcv["rover"])) = 4 THEN rv_headers + 1 ELSE rv_headers
    /\ UNCHANGED notLinkRover

\* the rover acknowledging whatever bytes the wait returned
RoverPayloadReturn_AckAnyBytes ==
    /\ pc["rover"] = "payload_wait"
    /\ recv_over(rcv["rover"], now)
    /\ IF Len(recv_bytes(rcv["rover"])) > 0
       THEN Write("rover", ACK_BYTES)
       ELSE UNCHANGED <<sent, wire>>
    /\ pc' = [pc EXCEPT !["rover"] = "hdr"]
    /\ UNCHANGED <<port, rxq, rcv, sync, result, now, faults, expected>>
    /\ UNCHANGED BaseTestVars
    /\ UNCHANGED notLink

\* test_as_rover: the wait for the payload is over.  A complete payload:
\* time.sleep(0.005), send ACK.  Then the next header.
RoverPayloadReturn ==
    /\ pc["rover"] = "payload_wait"
    /\ recv_over(rcv["rover"], now)
    /\ IF Len(recv_bytes(rcv["rover"])) = expected
       THEN Write("rover", ACK_BYTES)
       ELSE UNCHANGED <<sent, wire>>
    /\ pc' = [pc EXCEPT !["rover"] = "hdr"]
    /\ UNCHANGED <<port, rxq, rcv, sync, result, now, faults, expected>>
    /\ UNCHANGED BaseTestVars
    /\ UNCHANGED notLink

\* test_as_rover: KeyboardInterrupt ends the receiver loop; run_test returns
\* True through its finally clause
RoverInterrupt ==
    /\ pc["rover"] \in {"hdr", "hdr_wait", "payload_wait"}
    /\ pc' = [pc EXCEPT !["rover"] = "finally_ok"]
    /\ UNCHANGED <<port, wire, rxq, rcv, sync, result, sent, now, faults, expected>>
    /\ UNCHANGED BaseTestVars
    /\ UNCHANGED notLink

\* a finally clause that returns without closing the port
Disconnect_LeavesOpen(e) ==
    /\ pc[e] \in {"finally_ok", "finally_fail"}
    /\ result' = [result EXCEPT ![e] = IF pc[e] = "finally_ok" THEN "True" ELSE "False"]
    /\ pc' = [pc EXCEPT ![e] = "done"]
    /\ UNCHANGED <<port, wire, rxq, rcv, sync, sent, now, faults, expected>>
    /\ UNCHANGED BaseTestVars
    /\ UNCHANGED notLink

\* run_test's finally clause: disconnect(), and the value returned
Disconnect(e) ==
    /\ pc[e] \in {"finally_ok", "finally_fail"}
    /\ port' = [port EXCEPT ![e] = FALSE]
    /\ result' = [result EXCEPT ![e] = IF pc[e] = "finally_ok" THEN "True" ELSE "False"]
    /\ pc' = [pc EXCEPT ![e] = "done"]
    /\ UNCHANGED <<wire, rxq, rcv, sync, sent, now, faults, expected>>
    /\ UNCHANGED BaseTestVars
    /\ UNCHANGED notLink

\* main: success = tester.run_test(); "Done" or "Exited with errors or
\* aborted" is printed and main returns, there is no sys.exit: the
\* interpreter ends with status 0 whatever run_test returned
exit_status(success) == 0

\* the bytes in flight towards e reach e's port; a port that is not open
\* keeps none
Deliver(e) ==
    /\ wire[e] # <<>>
    /\ rxq' = [rxq EXCEPT ![e] = IF port[e] THEN @ \o wire[e] ELSE @]
    /\ wire' = [wire EXCEPT ![e] = <<>>]
    /\ UNCHANGED <<pc, port, rcv, sync, result, sent, now, faults, expected>>
    /\ UNCHANGED BaseTestVars
    /\ UNCHANGED notLink

\* the link holds back the last byte in flight towards e and delivers the
\* rest
Fragment(e) ==
    /\ faults < MaxFaults
    /\ Len(wire[e]) >= 2
    /\ LET n == Len(wire[e]) - 1 IN
       /\ rxq' = [rxq EXCEPT ![e] = IF port[e] THEN @ \o SubSeq(wire[e], 1, n) ELSE @]
       /\ wire' = [wire EXCEPT ![e] = PyFrom(@, n)]
    /\ faults' = faults + 1
    /\ UNCHANGED <<pc, port, rcv, sync, result, sent, now, expected>>
    /\ UNCHANGED BaseTestVars
    /\ UNCHANGED notLink

\* the link loses the next byte in flight towards e
Lose(e) ==
    /\ faults < MaxFaults
    /\ wire[e] # <<>>
    /\ wire' = [wire EXCEPT ![e] = Tail(@)]
    /\ faults' = faults + 1
    /\ UNCHANGED <<pc, port, rxq, rcv, sync, result, sent, now, expected>>
    /\ UNCHANGED BaseTestVars
    /\ UNCHANGED notLink

\* the link corrupts the next byte in flight towards e (to '#')
Corrupt(e) ==
    /\ faults < MaxFaults
    /\ wire[e] # <<>>
    /\ Head(wire[e]) # 35
    /\ wire' = [wire EXCEPT ![e] = <<35>> \o Tail(@)]
    /\ faults' = faults + 1
    /\ UNCHANGED <<pc, port, rxq, rcv, sync, result, sent, now, expected>>
    /\ UNCHANGED BaseTestVars
    /\ UNCHANGED notLink

\* the deadlines of the waits in progress that lie ahead
Deadlines == {d \in {rcv[e].deadline : e \in {x \in Endpoints : pc[x] \in WaitPcs}} :
                 d > now /\ d <= MaxTime}

\* time passes, up to the next deadline of a wait in progress
Advance ==
    /\ Deadlines # {}
    /\ now' = CHOOSE d \in Deadlines : \A o \in Deadlines : d <= o
    /\ UNCHANGED <<pc, port, wire, rxq, rcv, sync, result, sent, faults, expected>>
    /\ UNCHANGED BaseTestVars
    /\ UNCHANGED notLink

NextLink ==
    \/ \E e \in Endpoints : Connect(e)
    \/ \E e \in Endpoints : ConnectFails(e)
    \/ BaseSyncSend
    \/ RoverSyncWait
    \/ \E e \in Endpoints : RecvPoll(e)
    \/ \E e \in Endpoints : RecvSleep(e)
    \/ BaseSyncReturn
    \/ RoverSyncReturn
    \/ BaseIterBegin
    \/ BaseSendPayload
    \/ BaseAckReturn
    \/ RoverHeaderWait
    \/ RoverHeaderReturn
    \/ RoverPayloadReturn
    \/ RoverInterrupt
    \/ \E e \in Endpoints : Disconnect(e)
    \/ \E e \in Endpoints : Deliver(e)
    \/ \E e \in Endpoints : Fragment(e)
    \/ \E e \in Endpoints : Lose(e)
    \/ \E e \in Endpoints : Corrupt(e)
    \/ Advance

----------------------------------------------------------------------------
(* XBeeBenchmark.start: the main thread, the receive thread, the statistics
   thread.  Frames are taken as parsed: a frame is its type, its data_size
   and, for a PONG, the latency test whose PING it answers (known to the
   reader of the model, not to the program). *)

Threads == {"main", "rx", "stats"}

\* the latency tests of run_comprehensive_test that are followed: the first
\* data size at the first two intervals (in milliseconds)
latency_tests == <<[data_size |-> 8, interval |-> 100],
                   [data_size |-> 8, interval |-> 500]>>

\* len(create_message(msg_type, data_size))
FrameLen(data_size) == Len(create_message(NODE_ID, MSG_PING, data_size, <<>>, 1))

Frame(type, data_size, cause) == [type |-> type, data_size |-> data_size, cause |-> cause]

\* no call of send_message
NoSend == [type |-> <<>>, data_size |-> 0, loaded |-> 0, ret |-> "none"]

\* send_message(msg_type, data_size) entered, to return to the place ret
SendCall(type, data_size, ret) ==
    [type |-> type, data_size |-> data_size, loaded |-> 0, ret |-> ret]

\* the bytes of a frame that its first and its second write to the port carry
PartLen(data_size, part) ==
    IF part = 1 THEN FrameLen(data_size) \div 2
    ELSE FrameLen(data_size) - FrameLen(data_size) \div 2

\* a part of thread t's frame accepted by the stream
StreamPart(t, call, part) ==
    [by |-> t, type |-> call.type, part |-> part, n |-> PartLen(call.data_size, part)]

\* self.tx_bytes += bytes_sent, the store: the value loaded plus bytes_sent
tx_bytes_store(loaded, current, bytes_sent) == loaded + bytes_sent

IdleNode ==
    /\ x_pc = [t \in Threads |-> "off"]
    /\ x_running = FALSE
    /\ x_open = FALSE
    /\ x_tx_bytes = 0
    /\ x_rx_bytes = 0
    /\ x_latency = <<>>
    /\ x_stream = <<>>
    /\ x_send = [t \in Threads |-> NoSend]
    /\ x_air = <<>>
    /\ x_inbox = <<>>
    /\ x_todo = <<>>
    /\ x_series = 0
    /\ x_requests = [k \in 1..Len(latency_tests) |-> 0]
    /\ x_agg = <<>>
    /\ x_results = <<>>
    /\ x_closed_use = {}
    /\ x_peer_pings = 0

\* XBeeBenchmark constructed, start() not yet called
InitNode ==
    /\ x_pc = [t \in Threads |-> IF t = "main" THEN "init" ELSE "off"]
    /\ x_running = FALSE
    /\ x_open = FALSE
    /\ x_tx_bytes = 0
    /\ x_rx_bytes = 0
    /\ x_latency = <<>>
    /\ x_stream = <<>>
    /\ x_send = [t \in Threads |-> NoSend]
    /\ x_air = <<>>
    /\ x_inbox = <<>>
    /\ x_todo = <<>>
    /\ x_series = 0
    /\ x_requests = [k \in 1..Len(latency_tests) |-> 0]
    /\ x_agg = <<>>
    /\ x_results = <<>>
    /\ x_closed_use = {}
    /\ x_peer_pings = 0

IdleThroughput ==
    /\ tp_pc = "off"
    /\ tp_rx = "off"
    /\ tp_running = FALSE
    /\ tp_packets = 0

\* COMPortTester connected, test_throughput called
InitThroughput ==
    /\ tp_pc = "init"
    /\ tp_rx = "off"
    /\ tp_running = FALSE
    /\ tp_packets = 0

IdleThreads == IdleNode /\ IdleThroughput

tpVars == <<tp_pc, tp_rx, tp_running, tp_packets>>

\* left alone by the threads' steps outside send_message
SendVars == <<x_tx_bytes, x_stream>>

\* left alone by the steps of the receive and statistics threads
MainVars == <<x_series, x_requests, x_agg, x_results>>

\* left alone by the steps of the main and statistics threads
RxVars == <<x_rx_bytes, x_inbox, x_todo>>

\* send_message: the port is checked, the frame is built and the write
\* begins; on a closed port send_message returns False
SendBegin(t) ==
    /\ x_pc[t] = "send"
    /\ IF ~x_open
       THEN /\ x_pc' = [x_pc EXCEPT ![t] = x_send[t].ret]
            /\ x_send' = [x_send EXCEPT ![t] = NoSend]
            /\ UNCHANGED x_stream
       ELSE /\ x_stream' = Append(x_stream, StreamPart(t, x_send[t], 1))
            /\ x_pc' = [x_pc EXCEPT ![t] = "write"]
            /\ UNCHANGED x_send
    /\ UNCHANGED <<x_running, x_open, x_tx_bytes, x_latency, x_air, x_closed_use,
                   x_peer_pings>>
    /\ UNCHANGED <<MainVars, RxVars, tpVars>>
    /\ UNCHANGED notThreads

\* send_message: the write ends and returns bytes_sent, self.tx_bytes is
\* loaded for the addition.  A PING that has gone out is a request of the
\* latency test in progress, and the peer's PONG is on its way.  On a port
\* closed meanwhile the write raises and send_message returns False.
SendEnd(t) ==
    /\ x_pc[t] = "write"
    /\ IF ~x_open
       THEN /\ x_closed_use' = x_closed_use \cup {t}
            /\ x_pc' = [x_pc EXCEPT ![t] = x_send[t].ret]
            /\ x_send' = [x_send EXCEPT ![t] = NoSend]
            /\ UNCHANGED <<x_stream, x_requests, x_air>>
       ELSE /\ x_stream' = Append(x_stream, StreamPart(t, x_send[t], 2))
            /\ x_send' = [x_send EXCEPT ![t].loaded = x_tx_bytes]
            /\ x_pc' = [x_pc EXCEPT ![t] = "count"]
            /\ IF x_send[t].type = MSG_PING
               THEN /\ x_requests' = [x_requests EXCEPT ![x_series] = @ + 1]
                    /\ x_air' = Append(x_air, Frame(MSG_PONG, x_send[t].data_size, x_series))
               ELSE UNCHANGED <<x_requests, x_air>>
            /\ UNCHANGED x_closed_use
    /\ UNCHANGED <<x_running, x_open, x_tx_bytes, x_latency, x_peer_pings>>
    /\ UNCHANGED <<x_series, x_agg, x_results, RxVars, tpVars>>
    /\ UNCHANGED notThreads

\* send_message: the sum is stored in self.tx_bytes, return True
SendCount(t) ==
    /\ x_pc[t] = "count"
    /\ x_tx_bytes' = tx_bytes_store(x_send[t].loaded, x_tx_bytes,
                                    FrameLen(x_send[t].data_size))
    /\ x_pc' = [x_pc EXCEPT ![t] = x_send[t].ret]
    /\ x_send' = [x_send EXCEPT ![t] = NoSend]
    /\ UNCHANGED <<x_running, x_open, x_stream, x_latency, x_air, x_closed_use,
                   x_peer_pings>>
    /\ UNCHANGED <<MainVars, RxVars, tpVars>>
    /\ UNCHANGED notThreads

\* start(): connect() succeeds, running = True, the threads are started
XStart ==
    /\ x_pc["main"] = "init"
    /\ x_open' = TRUE
    /\ x_running' = TRUE
    /\ x_pc' = [main |-> "sync", rx |-> "check", stats |-> "check"]
    /\ UNCHANGED <<x_tx_bytes, x_stream, x_latency, x_send, x_air, x_closed_use,
                   x_peer_pings>>
    /\ UNCHANGED <<MainVars, RxVars, tpVars>>
    /\ UNCHANGED notThreads

\* start(): connect() fails, return False
XStartFails ==
    /\ x_pc["main"] = "init"
    /\ x_pc' = [x_pc EXCEPT !["main"] = "done"]
    /\ UNCHANGED <<x_running, x_open, x_tx_bytes, x_stream, x_latency, x_send,
                   x_air, x_closed_use, x_peer_pings>>
    /\ UNCHANGED <<MainVars, RxVars, tpVars>>
    /\ UNCHANGED notThreads

\* run_comprehensive_test, master: send_message(MSG_SYNC, 0)
MainSync ==
    /\ x_pc["main"] = "sync"
    /\ x_send' = [x_send EXCEPT !["main"] = SendCall(MSG_SYNC, 0, "next_test")]
    /\ x_pc' = [x_pc EXCEPT !["main"] = "send"]
    /\ UNCHANGED <<x_running, x_open, x_tx_bytes, x_stream, x_latency, x_air,
                   x_closed_use, x_peer_pings>>
    /\ UNCHANGED <<MainVars, RxVars, tpVars>>
    /\ UNCHANGED notThreads

\* run_comprehensive_test: the next latency test is entered, or, after the
\* last one, the tests are over
MainNextTest ==
    /\ x_pc["main"] = "next_test"
    /\ IF x_series < Len(latency_tests) /\ x_running
       THEN /\ x_series' = x_series + 1
            /\ x_pc' = [x_pc EXCEPT !["main"] = "clear"]
       ELSE /\ x_pc' = [x_pc EXCEPT !["main"] = "finally"]
            /\ UNCHANGED x_series
    /\ UNCHANGED <<x_running, x_open, x_latency, x_send, x_air, x_closed_use,
                   x_peer_pings, x_requests, x_agg, x_results>>
    /\ UNCHANGED <<SendVars, RxVars, tpVars>>
    /\ UNCHANGED notThreads

\* run_latency_test: self.latency_measurements.clear()
MainClear ==
    /\ x_pc["main"] = "clear"
    /\ x_latency' = <<>>
    /\ x_pc' = [x_pc EXCEPT !["main"] = "loop"]
    /\ UNCHANGED <<x_running, x_open, x_send, x_air, x_closed_use, x_peer_pings>>
    /\ UNCHANGED <<SendVars, MainVars, RxVars, tpVars>>
    /\ UNCHANGED notThreads

\* run_latency_test: the duration is not over: send_message(MSG_PING,
\* data_size), time.sleep(interval)
MainPing ==
    /\ x_pc["main"] = "loop"
    /\ x_running
    /\ x_requests[x_series] < MaxPings
    /\ x_send' = [x_send EXCEPT !["main"] =
                     SendCall(MSG_PING, latency_tests[x_series].data_size, "loop")]
    /\ x_pc' = [x_pc EXCEPT !["main"] = "send"]
    /\ UNCHANGED <<x_running, x_open, x_tx_bytes, x_stream, x_latency, x_air,
                   x_closed_use, x_peer_pings>>
    /\ UNCHANGED <<MainVars, RxVars, tpVars>>
    /\ UNCHANGED notThreads

\* run_latency_test: the duration is over (or running is False):
\* time.sleep(2)
MainLoopEnd ==
    /\ x_pc["main"] = "loop"
    /\ x_requests[x_series] >= 1 \/ ~x_running
    /\ x_pc' = [x_pc EXCEPT !["main"] = "aggregate"]
    /\ UNCHANGED <<x_running, x_open, x_latency, x_send, x_air, x_closed_use,
                   x_peer_pings>>
    /\ UNCHANGED <<SendVars, MainVars, RxVars, tpVars>>
    /\ UNCHANGED notThreads

\* what run_latency_test returns when measurements were recorded: the mean
\* was taken over the measurements read first, packets is the length read
\* last
LatencyResult(test, mean_over, packets) ==
    [data_size |-> test.data_size, interval |-> test.interval,
     mean_over |-> mean_over, packets |-> packets]

\* the measurements in q that answer a PING of latency test k
Answering(q, k) == {i \in 1..Len(q) : q[i].cause = k}

\* run_latency_test: "if self.latency_measurements" and the mean, minimum
\* and maximum are read; with no measurements None is returned
MainAggregate ==
    /\ x_pc["main"] = "aggregate"
    /\ x_agg' = x_latency
    /\ IF x_latency = <<>>
       THEN /\ x_results' = Append(x_results, None)
            /\ x_pc' = [x_pc EXCEPT !["main"] = "next_test"]
       ELSE /\ x_pc' = [x_pc EXCEPT !["main"] = "report"]
            /\ UNCHANGED x_results
    /\ UNCHANGED <<x_running, x_open, x_latency, x_send, x_air, x_closed_use,
                   x_peer_pings, x_series, x_requests>>
    /\ UNCHANGED <<SendVars, RxVars, tpVars>>
    /\ UNCHANGED notThreads

\* run_latency_test: len(self.latency_measurements) is read for 'packets'
\* and the result is returned
MainReport ==
    /\ x_pc["main"] = "report"
    /\ x_results' = Append(x_results,
                       LatencyResult(latency_tests[x_series], Len(x_agg), Len(x_latency)))
    /\ x_pc' = [x_pc EXCEPT !["main"] = "next_test"]
    /\ UNCHANGED <<x_running, x_open, x_latency, x_send, x_air, x_closed_use,
                   x_peer_pings, x_series, x_requests, x_agg>>
    /\ UNCHANGED <<SendVars, RxVars, tpVars>>
    /\ UNCHANGED notThreads

\* start(): KeyboardInterrupt in the main thread, during one of its sleeps
MainInterrupt ==
    /\ x_pc["main"] \in {"sync", "next_test", "loop", "aggregate"}
    /\ x_pc' = [x_pc EXCEPT !["main"] = "finally"]
    /\ x_send' = [x_send EXCEPT !["main"] = NoSend]
    /\ UNCHANGED <<x_running, x_open, x_latency, x_air, x_closed_use, x_peer_pings>>
    /\ UNCHANGED <<SendVars, MainVars, RxVars, tpVars>>
    /\ UNCHANGED notThreads

\* start(), finally: self.running = False
MainStop ==
    /\ x_pc["main"] = "finally"
    /\ x_running' = FALSE
    /\ x_pc' = [x_pc EXCEPT !["main"] = "disconnect"]
    /\ UNCHANGED <<x_open, x_latency, x_send, x_air, x_closed_use, x_peer_pings>>
    /\ UNCHANGED <<SendVars, MainVars, RxVars, tpVars>>
    /\ UNCHANGED notThreads

\* start(), finally: self.disconnect()
MainDisconnect ==
    /\ x_pc["main"] = "disconnect"
    /\ x_open' = FALSE
    /\ x_pc' = [x_pc EXCEPT !["main"] = "done"]
    /\ UNCHANGED <<x_running, x_latency, x_send, x_air, x_closed_use, x_peer_pings>>
    /\ UNCHANGED <<SendVars, MainVars, RxVars, tpVars>>
    /\ UNCHANGED notThreads

\* the bytes of the frames fs
RECURSIVE FramesLen(_)
FramesLen(fs) == IF fs = <<>> THEN 0 ELSE FrameLen(Head(fs).data_size) + FramesLen(Tail(fs))

\* the receive loop going on whatever the flag
rx_loop_goes_on_Always(flag) == TRUE

\* receive_messages: the condition of "while self.running"
rx_loop_goes_on(flag) == flag

\* receive_messages: while self.running
RxCheck ==
    /\ x_pc["rx"] = "check"
    /\ x_pc' = [x_pc EXCEPT !["rx"] = IF rx_loop_goes_on(x_running) THEN "poll" ELSE "exit"]
    /\ UNCHANGED <<x_running, x_open, x_latency, x_send, x_air, x_closed_use,
                   x_peer_pings>>
    /\ UNCHANGED <<SendVars, MainVars, RxVars, tpVars>>
    /\ UNCHANGED notThreads

\* receive_messages, the loop body: with bytes waiting they are all read and
\* counted; with none, time.sleep(0.001); on a closed port in_waiting raises,
\* the error is printed and the loop goes on after time.sleep(0.1)
RxPoll ==
    /\ x_pc["rx"] = "poll"
    /\ IF ~x_open
       THEN /\ x_closed_use' = x_closed_use \cup {"rx"}
            /\ x_pc' = [x_pc EXCEPT !["rx"] = "check"]
            /\ UNCHANGED RxVars
       ELSE IF x_inbox = <<>>
       THEN /\ x_pc' = [x_pc EXCEPT !["rx"] = "check"]
            /\ UNCHANGED <<RxVars, x_closed_use>>
       ELSE /\ x_todo' = x_inbox
            /\ x_inbox' = <<>>
            /\ x_rx_bytes' = x_rx_bytes + FramesLen(x_inbox)
            /\ x_pc' = [x_pc EXCEPT !["rx"] = "handle"]
            /\ UNCHANGED x_closed_use
    /\ UNCHANGED <<x_running, x_open, x_latency, x_send, x_air, x_peer_pings>>
    /\ UNCHANGED <<SendVars, MainVars, tpVars>>
    /\ UNCHANGED notThreads

\* receive_messages, "Process complete messages": the next frame is handed to
\* handle_received_message: a PING is answered by send_message(MSG_PONG, ...),
\* a PONG goes on to the append, other types change nothing; with no frame
\* left the loop body is over
RxHandle ==
    /\ x_pc["rx"] = "handle"
    /\ IF x_todo = <<>>
       THEN /\ x_pc' = [x_pc EXCEPT !["rx"] = "check"]
            /\ UNCHANGED <<x_todo, x_send>>
       ELSE IF Head(x_todo).type = MSG_PING
       THEN /\ x_send' = [x_send EXCEPT !["rx"] =
                             SendCall(MSG_PONG, Head(x_todo).data_size, "handle")]
            /\ x_pc' = [x_pc EXCEPT !["rx"] = "send"]
            /\ x_todo' = Tail(x_todo)
       ELSE IF Head(x_todo).type = MSG_PONG
       THEN /\ x_pc' = [x_pc EXCEPT !["rx"] = "append"]
            /\ UNCHANGED <<x_todo, x_send>>
       ELSE /\ x_todo' = Tail(x_todo)
            /\ UNCHANGED <<x_pc, x_send>>
    /\ UNCHANGED <<x_running, x_open, x_latency, x_air, x_closed_use, x_peer_pings,
                   x_rx_bytes, x_inbox>>
    /\ UNCHANGED <<SendVars, MainVars, tpVars>>
    /\ UNCHANGED notThreads

\* handle_received_message, MSG_PONG: self.latency_measurements.append(...)
RxAppend ==
    /\ x_pc["rx"] = "append"
    /\ x_latency' = deque_append(x_latency, [cause |-> Head(x_todo).cause])
    /\ x_todo' = Tail(x_todo)
    /\ x_pc' = [x_pc EXCEPT !["rx"] = "handle"]
    /\ UNCHANGED <<x_running, x_open, x_send, x_air, x_closed_use, x_peer_pings,
                   x_rx_bytes, x_inbox>>
    /\ UNCHANGED <<SendVars, MainVars, tpVars>>
    /\ UNCHANGED notThreads

\* print_statistics, one pass of the loop: running is True, time.sleep(5),
\* the counters are printed and list(self.latency_measurements)[-10:] is
\* averaged; nothing is changed
StatsPass ==
    /\ x_pc["stats"] = "check"
    /\ x_running
    /\ UNCHANGED threadVars
    /\ UNCHANGED notThreads

\* print_statistics: running is False, the thread ends
StatsExit ==
    /\ x_pc["stats"] = "check"
    /\ ~x_running
    /\ x_pc' = [x_pc EXCEPT !["stats"] = "exit"]
    /\ UNCHANGED <<x_running, x_open, x_latency, x_send, x_air, x_closed_use,
                   x_peer_pings>>
    /\ UNCHANGED <<SendVars, MainVars, RxVars, tpVars>>
    /\ UNCHANGED notThreads

\* the next frame in flight reaches the port; a closed port keeps none
XArrive ==
    /\ x_air # <<>>
    /\ x_air' = Tail(x_air)
    /\ x_inbox' = IF x_open THEN Append(x_inbox, Head(x_air)) ELSE x_inbox
    /\ UNCHANGED <<x_pc, x_running, x_open, x_latency, x_send, x_closed_use,
                   x_peer_pings, x_rx_bytes, x_todo>>
    /\ UNCHANGED <<SendVars, MainVars, tpVars>>
    /\ UNCHANGED notThreads

\* the next frame in flight (or the PING it answers) is lost
XLose ==
    /\ x_open
    /\ x_air # <<>>
    /\ x_air' = Tail(x_air)
    /\ UNCHANGED <<x_pc, x_running, x_open, x_latency, x_send, x_closed_use,
                   x_peer_pings>>
    /\ UNCHANGED <<SendVars, MainVars, RxVars, tpVars>>
    /\ UNCHANGED notThreads

\* the peer sends a PING of its own latency test to the node
PeerPing ==
    /\ x_running
    /\ x_peer_pings < MaxPeerPings
    /\ x_peer_pings' = x_peer_pings + 1
    /\ x_air' = Append(x_air, Frame(MSG_PING, latency_tests[1].data_size, 0))
    /\ UNCHANGED <<x_pc, x_running, x_open, x_latency, x_send, x_closed_use>>
    /\ UNCHANGED <<SendVars, MainVars, RxVars, tpVars>>
    /\ UNCHANGED notThreads

\* a PONG reaches the node that answers none of its PINGs of this run
PeerPong ==
    /\ x_running
    /\ x_peer_pings < MaxPeerPings
    /\ x_peer_pings' = x_peer_pings + 1
    /\ x_air' = Append(x_air, Frame(MSG_PONG, latency_tests[1].data_size, 0))
    /\ UNCHANGED <<x_pc, x_running, x_open, x_latency, x_send, x_closed_use>>
    /\ UNCHANGED <<SendVars, MainVars, RxVars, tpVars>>
    /\ UNCHANGED notThreads

NextNode ==
    \/ XStart
    \/ XStartFails
    \/ \E t \in {"main", "rx"} : SendBegin(t)
    \/ \E t \in {"main", "rx"} : SendEnd(t)
    \/ \E t \in {"main", "rx"} : SendCount(t)
    \/ MainSync
    \/ MainNextTest
    \/ MainClear
    \/ MainPing
    \/ MainLoopEnd
    \/ MainAggregate
    \/ MainReport
    \/ MainInterrupt
    \/ MainStop
    \/ MainDisconnect
    \/ RxCheck
    \/ RxPoll
    \/ RxHandle
    \/ RxAppend
    \/ StatsPass
    \/ StatsExit
    \/ XArrive
    \/ XLose
    \/ PeerPing

\* the steps of the receive thread
RxStep ==
    \/ SendBegin("rx")
    \/ SendEnd("rx")
    \/ SendCount("rx")
    \/ RxCheck
    \/ RxPoll
    \/ RxHandle
    \/ RxAppend

----------------------------------------------------------------------------
(* COMPortTester.test_throughput: the caller and its receiver thread *)

nodeVars == <<x_pc, x_running, x_open, x_tx_bytes, x_rx_bytes, x_latency,
              x_stream, x_send, x_air, x_inbox, x_todo, x_series, x_requests,
              x_agg, x_results, x_closed_use, x_peer_pings>>

\* test_throughput: self.running = True, the receiver thread is started
TpStart ==
    /\ tp_pc = "init"
    /\ tp_running' = TRUE
    /\ tp_rx' = "check"
    /\ tp_pc' = "send"
    /\ UNCHANGED <<tp_packets, nodeVars>>
    /\ UNCHANGED notThreads

\* test_throughput: the duration is not over: write(test_data),
\* packets_sent += 1, time.sleep(0.001)
TpSend ==
    /\ tp_pc = "send"
    /\ tp_packets < MaxPackets
    /\ tp_packets' = tp_packets + 1
    /\ UNCHANGED <<tp_pc, tp_rx, tp_running, nodeVars>>
    /\ UNCHANGED notThreads

\* test_throughput: the duration is over, or the write raised, or
\* KeyboardInterrupt
TpSendEnd ==
    /\ tp_pc = "send"
    /\ tp_pc' = "stop"
    /\ UNCHANGED <<tp_rx, tp_running, tp_packets, nodeVars>>
    /\ UNCHANGED notThreads

\* test_throughput: self.running = False, time.sleep(0.1), the results
TpStop ==
    /\ tp_pc = "stop"
    /\ tp_running' = FALSE
    /\ tp_pc' = "done"
    /\ UNCHANGED <<tp_rx, tp_packets, nodeVars>>
    /\ UNCHANGED notThreads

\* receiver(): while self.running
TpRxCheck ==
    /\ tp_rx = "check"
    /\ tp_rx' = IF tp_running THEN "read" ELSE "exit"
    /\ UNCHANGED <<tp_pc, tp_running, tp_packets, nodeVars>>
    /\ UNCHANGED notThreads

\* receiver(): self.serial_conn.read(packet_size) returns, with the bytes
\* that came or, after the port's timeout, with fewer or none
TpRxRead ==
    /\ tp_rx = "read"
    /\ tp_rx' = "check"
    /\ UNCHANGED <<tp_pc, tp_running, tp_packets, nodeVars>>
    /\ UNCHANGED notThreads

\* receiver(): the read raises: break
TpRxBreak ==
    /\ tp_rx = "read"
    /\ tp_rx' = "exit"
    /\ UNCHANGED <<tp_pc, tp_running, tp_packets, nodeVars>>
    /\ UNCHANGED notThreads

NextThroughput ==
    \/ TpStart
    \/ TpSend
    \/ TpSendEnd
    \/ TpStop
    \/ TpRxCheck
    \/ TpRxRead
    \/ TpRxBreak

\* the steps of receiver()
TpRxStep == TpRxCheck \/ TpRxRead \/ TpRxBreak

NextThreads == NextNode \/ NextThroughput

\* start() interrupted before its tests, and test_throughput: the runs in
\* which the flag is cleared while the receive thread is at work
NextCancel ==
    \/ XStart
    \/ MainInterrupt
    \/ MainStop
    \/ MainDisconnect
    \/ SendBegin("rx")
    \/ SendEnd("rx")
    \/ SendCount("rx")
    \/ RxCheck
    \/ RxPoll
    \/ RxHandle
    \/ RxAppend
    \/ StatsPass
    \/ StatsExit
    \/ XArrive
    \/ XLose
    \/ PeerPing
    \/ PeerPong
    \/ NextThroughput

----------------------------------------------------------------------------
(* SpecTimeout: the timeouts test_as_base and test_as_rover derive for an
   iteration.  At a baud rate of k * 1200 a second is counted as 6000 * k
   units, in which every quantity of the derivation is a whole number: a
   bit on the air takes 5 units, a millisecond is 6 * k units. *)

\* the baud rates a tester is constructed with
BaudRates == {1200, 2400, 4800, 9600, 19200, 38400, 57600, BAUDRATE}

\* the payload sizes whose timeout is derived
TimeoutSizes == (0..MaxTimeoutSize) \cup {test_sizes[k] : k \in 1..Len(test_sizes)}

\* the baud rate in multiples of 1200
BaudUnit(baud) == baud \div 1200

\* a duration of ms milliseconds
Millis(ms, baud) == ms * 6 * BaudUnit(baud)

\* a duration counted at a baud rate, in the units of the highest baud rate
InCommonUnits(t, baud) == t * (BaudUnit(BAUDRATE) \div BaudUnit(baud))

\* the estimate from 8 bits a byte, without the start and the stop bit
estimate_tx_time_Unframed(size, baud) == (size * 8) * 5 + Millis(1, baud)

\* the estimate with the ratio inverted, baudrate / bits_with_framing, in
\* whole seconds up to ten minutes
estimate_tx_time_Inverted(size, baud) ==
    IF size = 0 THEN Millis(1, baud)
    ELSE Millis(1000 * Min(600, baud \div (size * 10)) + 1, baud)

\* estimate_tx_time(size): size * 10 bits at the baud rate, plus 0.001 s
estimate_tx_time_at(size, baud) == (size * 10) * 5 + Millis(1, baud)

\* the derivation with the floor as a ceiling
ack_wait_timeout_Capped(size, baud) ==
    Min(Millis(500, baud), estimate_tx_time_at(size, baud) * 3 + Millis(200, baud))

\* ack_wait_timeout = max(0.5, est_tx_s * 3 + 0.2)
ack_wait_timeout_at(size, baud) ==
    Max(Millis(500, baud), estimate_tx_time_at(size, baud) * 3 + Millis(200, baud))

\* timeout_for_payload = max(1.0, self.estimate_tx_time(expected_size) * 3 + 0.5)
timeout_for_payload_at(size, baud) ==
    Max(Millis(1000, baud), estimate_tx_time_at(size, baud) * 3 + Millis(500, baud))

\* no derivation yet
NoDerivation == [baud |-> 0, size |-> 0, timeout |-> 0, rover |-> 0]

IdleTimeout ==
    /\ to_baud = 0
    /\ to_size = 0
    /\ to_est = 0
    /\ to_timeout = 0
    /\ to_rover = 0
    /\ to_prev = NoDerivation
    /\ to_pc = "off"

\* a tester with some baud rate starts an iteration with some payload size
InitTimeout ==
    /\ to_baud \in BaudRates
    /\ to_size \in TimeoutSizes
    /\ to_est = 0
    /\ to_timeout = 0
    /\ to_rover = 0
    /\ to_prev = NoDerivation
    /\ to_pc = "new"

\* test_as_base: est_tx_s = self.estimate_tx_time(size);
\* ack_wait_timeout = max(0.5, est_tx_s * 3 + 0.2); test_as_rover, which
\* reads the same size from the header: timeout_for_payload
DeriveTimeout ==
    /\ to_pc = "new"
    /\ to_est' = estimate_tx_time_at(to_size, to_baud)
    /\ to_timeout' = ack_wait_timeout_at(to_size, to_baud)
    /\ to_rover' = timeout_for_payload_at(to_size, to_baud)
    /\ to_pc' = "done"
    /\ UNCHANGED <<to_baud, to_size, to_prev>>
    /\ UNCHANGED notTimeout

\* the next iteration of the loop over the sizes, or the first iteration of
\* a tester constructed with another baud rate: what was derived is kept
\* for comparison
NextDerivation ==
    /\ to_pc = "done"
    /\ to_prev = NoDerivation
    /\ to_prev' = [baud |-> to_baud, size |-> to_size, timeout |-> to_timeout,
                   rover |-> to_rover]
    /\ to_baud' \in BaudRates
    /\ to_size' \in TimeoutSizes
    /\ to_pc' = "new"
    /\ UNCHANGED <<to_est, to_timeout, to_rover>>
    /\ UNCHANGED notTimeout

NextTimeout == DeriveTimeout \/ NextDerivation

----------------------------------------------------------------------------
(* SpecSend: send_message called again and again by one thread, on a port
   that is open or closed and whose write returns or raises *)

\* the payload sizes of the frames sent
SendSizes == {0, 1, latency_tests[1].data_size}

\* what the stream does with a write: it returns the byte count or raises
WriteResults == {"returns", "raises"}

\* send_message counting the bytes as they are queued, before the write
send_message_effect_Queued(open, tx_bytes_now, write_result, message_len) ==
    IF ~open THEN [tx_bytes |-> tx_bytes_now, ret |-> FALSE, bytes_sent |-> 0]
    ELSE IF write_result = "raises"
         THEN [tx_bytes |-> tx_bytes_now + message_len, ret |-> FALSE, bytes_sent |-> 0]
    ELSE [tx_bytes |-> tx_bytes_now + message_len, ret |-> TRUE,
          bytes_sent |-> message_len]

\* send_message on a message of message_len bytes: what it leaves in
\* self.tx_bytes, what it returns, and the count the write returned
send_message_effect(open, tx_bytes_now, write_result, message_len) ==
    IF ~open THEN [tx_bytes |-> tx_bytes_now, ret |-> FALSE, bytes_sent |-> 0]
    ELSE IF write_result = "raises"
         THEN [tx_bytes |-> tx_bytes_now, ret |-> FALSE, bytes_sent |-> 0]
    ELSE [tx_bytes |-> tx_bytes_store(tx_bytes_now, tx_bytes_now, message_len),
          ret |-> TRUE, bytes_sent |-> message_len]

\* no call yet
NoCall == [outcome |-> "none", ret |-> FALSE, before |-> 0, bytes_sent |-> 0]

IdleSend ==
    /\ sm_open = FALSE
    /\ sm_tx_bytes = 0
    /\ sm_accepted = 0
    /\ sm_last = NoCall
    /\ sm_calls = -1

\* a node after __init__: no connection, tx_bytes = 0
InitSend ==
    /\ sm_open = FALSE
    /\ sm_tx_bytes = 0
    /\ sm_accepted = 0
    /\ sm_last = NoCall
    /\ sm_calls = 0

\* connect() succeeds
SmConnect ==
    /\ sm_calls >= 0
    /\ ~sm_open
    /\ sm_open' = TRUE
    /\ UNCHANGED <<sm_tx_bytes, sm_accepted, sm_last, sm_calls>>
    /\ UNCHANGED notSend

\* disconnect(): the open connection is closed
SmDisconnect ==
    /\ sm_open
    /\ sm_open' = FALSE
    /\ UNCHANGED <<sm_tx_bytes, sm_accepted, sm_last, sm_calls>>
    /\ UNCHANGED notSend

\* send_message(msg_type, data_size): one whole call
SmSend ==
    /\ sm_calls >= 0
    /\ sm_calls < MaxSends
    /\ \E data_size \in SendSizes, w \in WriteResults :
         LET r == send_message_effect(sm_open, sm_tx_bytes, w, FrameLen(data_size)) IN
         /\ sm_tx_bytes' = r.tx_bytes
         /\ sm_accepted' = sm_accepted + r.bytes_sent
         /\ sm_last' = [outcome |-> IF ~sm_open THEN "closed" ELSE w,
                        ret |-> r.ret, before |-> sm_tx_bytes,
                        bytes_sent |-> r.bytes_sent]
    /\ sm_calls' = sm_calls + 1
    /\ UNCHANGED sm_open
    /\ UNCHANGED notSend

NextSend == SmConnect \/ SmDisconnect \/ SmSend

----------------------------------------------------------------------------
(* SpecWait: one call of receive_data_with_timeout.  The clock counts ticks;
   a pass of the loop in which the read returns nothing takes the port's
   read timeout and time.sleep(0.001), a tick at least. *)

\* the clock readings of the model: every deadline lies below the last
MaxNow == MaxWait + 3

\* nothing returned yet
NoReturn == [bytes |-> <<>>, elapsed_ns |-> -1, last_recv_ts |-> -1]

\* return b"", 0, 0
EmptyReturn == [bytes |-> <<>>, elapsed_ns |-> 0, last_recv_ts |-> 0]

IdleWait ==
    /\ rw_pc = "off"
    /\ rw_open = FALSE
    /\ rw_expected = 0
    /\ rw_timeout = 0
    /\ rw_now = 0
    /\ rw_call = NoRecv
    /\ rw_pending = <<>>
    /\ rw_arrived = 0
    /\ rw_ret = NoReturn
    /\ rw_exit = "none"

\* receive_data_with_timeout(expected_size, timeout) is about to be called
InitWait ==
    /\ rw_pc = "call"
    /\ rw_open \in BOOLEAN
    /\ rw_expected \in 0..MaxExpected
    /\ rw_timeout \in 1..MaxWait
    /\ rw_now = 1
    /\ rw_call = NoRecv
    /\ rw_pending = <<>>
    /\ rw_arrived = 0
    /\ rw_ret = NoReturn
    /\ rw_exit = "none"

\* the call begins: on a port that is not open it returns b"", 0, 0;
\* otherwise start_ns, deadline_ns, received and last_recv_ts are set
WaitEnter ==
    /\ rw_pc = "call"
    /\ IF ~rw_open
       THEN /\ rw_ret' = EmptyReturn
            /\ rw_exit' = "not_open"
            /\ rw_pc' = "returned"
            /\ UNCHANGED rw_call
       ELSE /\ rw_call' = recv_enter(rw_expected, rw_timeout, rw_now)
            /\ rw_pc' = "loop"
            /\ UNCHANGED <<rw_ret, rw_exit>>
    /\ UNCHANGED <<rw_open, rw_expected, rw_timeout, rw_now, rw_pending, rw_arrived>>
    /\ UNCHANGED notWait

\* a pass of the loop in which self.ser.read(to_read) returns bytes
WaitRead ==
    /\ rw_pc = "loop"
    /\ ~recv_over(rw_call, rw_now)
    /\ rw_pending # <<>>
    /\ LET to_read == Min(rw_call.expected - Len(rw_call.received), READ_MAX)
           chunk == PySlice(rw_pending, 0, to_read)
       IN  /\ rw_call' = [rw_call EXCEPT !.received = @ \o chunk, !.last = rw_now]
           /\ rw_pending' = PyFrom(rw_pending, Len(chunk))
    /\ UNCHANGED <<rw_pc, rw_open, rw_expected, rw_timeout, rw_now, rw_arrived,
                   rw_ret, rw_exit>>
    /\ UNCHANGED notWait

\* a pass of the loop in which the read returns nothing after the port's
\* timeout: time.sleep(0.001)
WaitEmpty ==
    /\ rw_pc = "loop"
    /\ ~recv_over(rw_call, rw_now)
    /\ rw_pending = <<>>
    /\ rw_now < MaxNow
    /\ rw_now' = rw_now + 1
    /\ UNCHANGED <<rw_pc, rw_open, rw_expected, rw_timeout, rw_call, rw_pending,
                   rw_arrived, rw_ret, rw_exit>>
    /\ UNCHANGED notWait

\* a pass of the loop in which the read raises: return b"", 0, 0
WaitRaise ==
    /\ rw_pc = "loop"
    /\ ~recv_over(rw_call, rw_now)
    /\ rw_ret' = EmptyReturn
    /\ rw_exit' = "raised"
    /\ rw_pc' = "returned"
    /\ UNCHANGED <<rw_open, rw_expected, rw_timeout, rw_now, rw_call, rw_pending,
                   rw_arrived>>
    /\ UNCHANGED notWait

\* the loop is over: the bytes received are returned with the time from
\* the start to the last of them and the time of the last
WaitReturn ==
    /\ rw_pc = "loop"
    /\ recv_over(rw_call, rw_now)
    /\ rw_ret' = IF Len(rw_call.received) = 0 THEN EmptyReturn
                 ELSE [bytes |-> recv_bytes(rw_call),
                       elapsed_ns |-> IF rw_call.last # 0
                                      THEN rw_call.last - rw_call.start ELSE 0,
                       last_recv_ts |-> rw_call.last]
    /\ rw_exit' = "loop"
    /\ rw_pc' = "returned"
    /\ UNCHANGED <<rw_open, rw_expected, rw_timeout, rw_now, rw_call, rw_pending,
                   rw_arrived>>
    /\ UNCHANGED notWait

\* a byte of the peer reaches the port
ByteArrives ==
    /\ rw_pc \in {"call", "loop"}
    /\ rw_open
    /\ rw_arrived < MaxArrive
    /\ rw_arrived' = rw_arrived + 1
    /\ rw_pending' = Append(rw_pending, ACK_BYTES[1])
    /\ UNCHANGED <<rw_pc, rw_open, rw_expected, rw_timeout, rw_now, rw_call,
                   rw_ret, rw_exit>>
    /\ UNCHANGED notWait

\* the steps of the call itself
WaitStep == WaitEnter \/ WaitRead \/ WaitEmpty \/ WaitReturn

NextWait == WaitEnter \/ WaitRead \/ WaitEmpty \/ WaitRaise \/ WaitReturn \/ ByteArrives

----------------------------------------------------------------------------
(* SpecRtt: what one iteration of test_as_base measures.  time.time_ns()
   reads the clock of the machine, which runs forward and can be set back
   (it is not a monotonic clock). *)

\* the clock when the iteration begins
ClockStart == 2 * MaxDelay + 4

\* what the wait for the ACK returns: the ACK, a wrong byte, or nothing
AckResults == {ACK_BYTES, <<0>>, <<>>}

\* rtt_ns / 2 with the floor division of integers, in half ticks
one_way_ns_Floor(rtt_ns) == 2 * (rtt_ns \div 2)

\* one_way_ns = rtt_ns / 2.0, in half ticks
one_way_ns(rtt_ns) == rtt_ns

\* rtt_ns = ack_last_ts - tx_start_ns; if rtt_ns <= 0:
\* rtt_ns = max(1, tx_end_ns - tx_start_ns) * 2
rtt_ns(ack_last_ts, tx_start_ns, tx_end_ns) ==
    IF ack_last_ts - tx_start_ns <= 0
    THEN Max(1, tx_end_ns - tx_start_ns) * 2
    ELSE ack_last_ts - tx_start_ns

\* no result returned yet
NoResult == -1

\* run_bandwidth_test not called
IdleBandwidth ==
    /\ bw_start_bytes = 0
    /\ bw_bytes_sent = NoResult

\* the extraction loop is not running
IdleExtract ==
    /\ ex_pc = "off"
    /\ ex_buffer = <<>>
    /\ ex_handled = 0
    /\ ex_dropped = 0

\* no size header received
IdleRover == rv_headers = 0

IdleLatency ==
    /\ lt_pc = "off"
    /\ lt_open = FALSE
    /\ lt_num_tests = 0
    /\ lt_packet_size = 0
    /\ lt_answers = FALSE
    /\ lt_written = 0
    /\ lt_responses = 0
    /\ lt_result = "none"

IdleRtt ==
    /\ rt_pc = "off"
    /\ rt_clock = 0
    /\ rt_tx_start = 0
    /\ rt_tx_end = 0
    /\ rt_ack = <<>>
    /\ rt_last = 0
    /\ rt_rtt = 0
    /\ rt_one_way = 0
    /\ rt_sample = FALSE
    /\ rt_set_back = 0

\* the size header has been sent, the payload is about to be
InitRtt ==
    /\ rt_pc = "start"
    /\ rt_clock = ClockStart
    /\ rt_tx_start = 0
    /\ rt_tx_end = 0
    /\ rt_ack = <<>>
    /\ rt_last = 0
    /\ rt_rtt = 0
    /\ rt_one_way = 0
    /\ rt_sample = FALSE
    /\ rt_set_back = 0

\* tx_start_ns = time.time_ns(), chunked_send begins
RtStart ==
    /\ rt_pc = "start"
    /\ rt_tx_start' = rt_clock
    /\ rt_pc' = "sending"
    /\ UNCHANGED <<rt_clock, rt_tx_end, rt_ack, rt_last, rt_rtt, rt_one_way,
                   rt_sample, rt_set_back>>
    /\ UNCHANGED notRtt

\* chunked_send returns after some time, tx_end_ns = time.time_ns(); then
\* time.sleep(wait_for_processing), which takes a tick at least, and the
\* wait for the ACK is entered
RtSent ==
    /\ rt_pc = "sending"
    /\ \E d \in 0..MaxDelay, w \in 1..MaxDelay :
         /\ rt_tx_end' = rt_clock + d
         /\ rt_clock' = rt_clock + d + w
    /\ rt_pc' = "ack_wait"
    /\ UNCHANGED <<rt_tx_start, rt_ack, rt_last, rt_rtt, rt_one_way, rt_sample,
                   rt_set_back>>
    /\ UNCHANGED notRtt

\* receive_data_with_timeout(len(ACK_BYTES), ack_wait_timeout) returns
\* after some time: the bytes it got and the time of the last of them, 0
\* when it got none
RtAckReturn ==
    /\ rt_pc = "ack_wait"
    /\ \E d \in 0..MaxDelay, after \in 0..1, ack \in AckResults :
         /\ rt_ack' = ack
         /\ rt_last' = IF ack = <<>> THEN 0 ELSE rt_clock + d
         /\ rt_clock' = rt_clock + d + after
    /\ rt_pc' = "got"
    /\ UNCHANGED <<rt_tx_start, rt_tx_end, rt_rtt, rt_one_way, rt_sample, rt_set_back>>
    /\ UNCHANGED notRtt

\* the clock of the machine is set back while the iteration is under way
RtClockSetBack ==
    /\ rt_pc \in {"sending", "ack_wait"}
    /\ rt_set_back < MaxSetBack
    /\ rt_set_back' = rt_set_back + 1
    /\ \E k \in 1..(2 * MaxDelay + 2) : rt_clock' = rt_clock - k
    /\ UNCHANGED <<rt_pc, rt_tx_start, rt_tx_end, rt_ack, rt_last, rt_rtt,
                   rt_one_way, rt_sample>>
    /\ UNCHANGED notRtt

\* if ack == ACK_BYTES and ack_last_ts: rtt_ns, one_way_ns, the sample is
\* appended; else "No ACK or timeout"
RtRecord ==
    /\ rt_pc = "got"
    /\ IF rt_ack = ACK_BYTES /\ rt_last # 0
       THEN /\ rt_rtt' = rtt_ns(rt_last, rt_tx_start, rt_tx_end)
            /\ rt_one_way' = one_way_ns(rtt_ns(rt_last, rt_tx_start, rt_tx_end))
            /\ rt_sample' = TRUE
       ELSE UNCHANGED <<rt_rtt, rt_one_way, rt_sample>>
    /\ rt_pc' = "done"
    /\ UNCHANGED <<rt_clock, rt_tx_start, rt_tx_end, rt_ack, rt_last, rt_set_back>>
    /\ UNCHANGED notRtt

NextRtt == RtStart \/ RtSent \/ RtAckReturn \/ RtClockSetBack \/ RtRecord

----------------------------------------------------------------------------
(* The specifications *)

\* the codec on drawn inputs
InitSpecCodec == InitCodec /\ IdleRecv /\ IdleChunk /\ IdleLink /\ IdleThreads /\ IdleTimeout /\ IdleSend
    /\ IdleWait
    /\ IdleRtt
    /\ IdleBandwidth
    /\ IdleRover
    /\ IdleExtract
    /\ IdleLatency

SpecCodec == InitSpecCodec /\ [][NextCodec]_vars

\* a node after __init__
InitSpecRecv == IdleRecv /\ IdleCodec /\ IdleChunk /\ IdleLink /\ IdleThreads /\ IdleTimeout /\ IdleSend
    /\ IdleWait
    /\ IdleRtt
    /\ IdleBandwidth
    /\ IdleRover
    /\ IdleExtract
    /\ IdleLatency

SpecRecv == InitSpecRecv /\ [][NextRecv]_vars

\* the receive thread of a node whose peer sends frames of every type
NextHandler == Start \/ PeerSendAny \/ Arrive \/ ReceivePoll \/ ReceiveIdle \/ ClockTick

SpecHandler == InitSpecRecv /\ [][NextHandler]_vars

----------------------------------------------------------------------------
(* receive_messages: the "Process complete messages" loop, one pass of the
   while at a time *)

\* buffer = buffer[start:], the bytes before the start marker dropped and
\* the candidate kept
rest_after_FromStart(buf, start, end) == PyFrom(buf, start)

\* buffer = buffer[end+2:]
rest_after(buf, start, end) == PyFrom(buf, end + 2)

\* while b'$$' in buffer and b'##' in buffer
extract_goes_on(buf) == Contains(buf, START_MARKER) /\ Contains(buf, END_MARKER)

\* the peer's frames a buffer may hold: a PING with the payload b'X', a DATA
\* frame with the payload b'##'
SampleFrames ==
    {create_message(PEER_ID, MSG_PING, 1, <<<<88>>>>, 1),
     create_message(PEER_ID, MSG_DATA, 2, <<<<35, 35>>>>, 1)}

\* the buffers the loop starts from: bytes of 0, '#' and '$', alone, before
\* a frame and after one
ExtractBuffers ==
    GarbageUpTo(MaxBuffer)
        \cup {g \o f : g \in GarbageUpTo(MaxBuffer - 1), f \in SampleFrames}
        \cup {f \o g : g \in GarbageUpTo(2), f \in SampleFrames}

\* the receive thread has started: buffer = b''
InitExtract ==
    /\ ex_pc = "read"
    /\ ex_buffer = <<>>
    /\ ex_handled = 0
    /\ ex_dropped = 0

\* bytes are waiting: data = self.serial_conn.read(...), buffer += data
ExtractRead ==
    /\ ex_pc = "read"
    /\ \E data \in ExtractBuffers : ex_buffer' = ex_buffer \o data
    /\ ex_pc' = "loop"
    /\ UNCHANGED <<ex_handled, ex_dropped>>
    /\ UNCHANGED notExtract

\* a pass of the loop that finds an end marker: the candidate is cut out of
\* the buffer and parsed; parsed, it goes to the handler; otherwise it is
\* dropped and the loop goes on
ExtractCandidate ==
    /\ ex_pc = "loop"
    /\ extract_goes_on(ex_buffer)
    /\ \E start \in {Find(ex_buffer, START_MARKER, 0)} :
       \E end \in {Find(ex_buffer, END_MARKER, start)} :
         /\ end # -1
         /\ \E message_data \in {PySlice(ex_buffer, start, end + 2)} :
            \E parsed \in {parse_message(message_data, 0)} :
              /\ ex_buffer' = rest_after(ex_buffer, start, end)
              /\ ex_handled' = IF parsed # None THEN ex_handled + 1 ELSE ex_handled
              /\ ex_dropped' = IF parsed # None THEN ex_dropped ELSE ex_dropped + 1
    /\ UNCHANGED ex_pc
    /\ UNCHANGED notExtract

\* a pass of the loop that finds no end marker after the start marker: break
ExtractBreak ==
    /\ ex_pc = "loop"
    /\ extract_goes_on(ex_buffer)
    /\ Find(ex_buffer, END_MARKER, Find(ex_buffer, START_MARKER, 0)) = -1
    /\ ex_pc' = "done"
    /\ UNCHANGED <<ex_buffer, ex_handled, ex_dropped>>
    /\ UNCHANGED notExtract

\* the condition of the while is false: the loop is over
ExtractExit ==
    /\ ex_pc = "loop"
    /\ ~extract_goes_on(ex_buffer)
    /\ ex_pc' = "done"
    /\ UNCHANGED <<ex_buffer, ex_handled, ex_dropped>>
    /\ UNCHANGED notExtract

\* a pass of the while
ExtractPass == ExtractCandidate \/ ExtractBreak \/ ExtractExit

NextExtract == ExtractRead \/ ExtractCandidate \/ ExtractBreak \/ ExtractExit

InitSpecExtract ==
    InitExtract /\ IdleCodec /\ IdleRecv /\ IdleChunk /\ IdleLink /\ IdleThreads
    /\ IdleTimeout /\ IdleSend /\ IdleWait /\ IdleRtt /\ IdleBandwidth /\ IdleRover
    /\ IdleLatency

\* the receive thread is scheduled again and again
SpecExtract == InitSpecExtract /\ [][NextExtract]_vars /\ WF_vars(ExtractPass)

\* a running node with garbage and then a frame on its link
InitSpecResync == InitResync /\ IdleCodec /\ IdleChunk /\ IdleLink /\ IdleThreads /\ IdleTimeout /\ IdleSend
    /\ IdleWait
    /\ IdleRtt
    /\ IdleBandwidth
    /\ IdleRover
    /\ IdleExtract
    /\ IdleLatency

SpecResync == InitSpecResync /\ [][NextResync]_vars

\* a running node that gets PONG after PONG
InitSpecPongs ==
    InitPongs /\ IdleCodec /\ IdleChunk /\ IdleLink /\ IdleThreads /\ IdleTimeout
    /\ IdleSend /\ IdleWait /\ IdleRtt
    /\ IdleBandwidth
    /\ IdleRover
    /\ IdleExtract
    /\ IdleLatency

SpecPongs == InitSpecPongs /\ [][NextPongs]_vars

\* one call of chunked_send
InitSpecChunk == InitChunk /\ IdleCodec /\ IdleRecv /\ IdleLink /\ IdleThreads /\ IdleTimeout /\ IdleSend
    /\ IdleWait
    /\ IdleRtt
    /\ IdleBandwidth
    /\ IdleRover
    /\ IdleExtract
    /\ IdleLatency

SpecChunk == InitSpecChunk /\ [][NextChunk]_vars

\* a base and a rover, each about to call run_test
InitSpecLink == InitLink /\ IdleCodec /\ IdleRecv /\ IdleChunk /\ IdleThreads /\ IdleTimeout /\ IdleSend
    /\ IdleWait
    /\ IdleRtt
    /\ IdleBandwidth
    /\ IdleRover
    /\ IdleExtract
    /\ IdleLatency

SpecLink == InitSpecLink /\ [][NextLink]_vars

\* test_as_base with ResyncIterations iterations of each size
RepeatIterBegin == BaseIterBeginOf(ResyncIterations)

RepeatAckReturn == BaseAckReturnOf(ResyncIterations)

\* the linked run with several iterations, over a link that loses bytes on
\* their way to the rover
NextRepeat ==
    \/ \E e \in Endpoints : Connect(e)
    \/ BaseSyncSend
    \/ RoverSyncWait
    \/ \E e \in Endpoints : RecvPoll(e)
    \/ \E e \in Endpoints : RecvSleep(e)
    \/ BaseSyncReturn
    \/ RoverSyncReturn
    \/ RepeatIterBegin
    \/ BaseSendPayload
    \/ RepeatAckReturn
    \/ RoverHeaderWait
    \/ RoverHeaderReturn
    \/ RoverPayloadReturn
    \/ \E e \in Endpoints : Disconnect(e)
    \/ \E e \in Endpoints : Deliver(e)
    \/ Lose("rover")
    \/ Advance

SpecRepeat == InitSpecLink /\ [][NextRepeat]_vars

\* run_test: a KeyboardInterrupt raised inside wait_for_sync or test_as_base
\* reaches the except clause of run_test, which returns False through the
\* finally clause (test_as_rover catches its own, see RoverInterrupt)
Interrupted(e) ==
    /\ \/ pc[e] \in {"sync", "sync_wait"}
       \/ e = "base" /\ pc[e] \in {"iter", "payload", "ack_wait"}
    /\ pc' = [pc EXCEPT ![e] = "finally_fail"]
    /\ UNCHANGED <<port, wire, rxq, rcv, sync, result, sent, now, faults, expected>>
    /\ UNCHANGED BaseTestVars
    /\ UNCHANGED notLink

\* test_as_base: self.ser.in_waiting raises (the device is gone); the
\* exception reaches "except Exception" of run_test, which returns False
\* through the finally clause
UnexpectedError ==
    /\ pc["base"] = "iter"
    /\ pc' = [pc EXCEPT !["base"] = "finally_fail"]
    /\ UNCHANGED <<port, wire, rxq, rcv, sync, result, sent, now, faults, expected>>
    /\ UNCHANGED BaseTestVars
    /\ UNCHANGED notLink

\* the linked run with every way out of run_test: failed connect, failed
\* handshake, completed test, interrupt and unexpected error
NextClose ==
    \/ \E e \in Endpoints : Connect(e)
    \/ \E e \in Endpoints : ConnectFails(e)
    \/ BaseSyncSend
    \/ RoverSyncWait
    \/ \E e \in Endpoints : RecvPoll(e)
    \/ \E e \in Endpoints : RecvSleep(e)
    \/ BaseSyncReturn
    \/ RoverSyncReturn
    \/ BaseIterBegin
    \/ BaseSendPayload
    \/ BaseAckReturn
    \/ RoverHeaderWait
    \/ RoverHeaderReturn
    \/ RoverPayloadReturn
    \/ RoverInterrupt
    \/ \E e \in Endpoints : Interrupted(e)
    \/ UnexpectedError
    \/ \E e \in Endpoints : Disconnect(e)
    \/ \E e \in Endpoints : Deliver(e)
    \/ \E e \in Endpoints : Lose(e)
    \/ Advance

SpecClose == InitSpecLink /\ [][NextClose]_vars

----------------------------------------------------------------------------
(* COMPortTester.test_latency (rover.py) *)

\* a tester, connected or not, about to call test_latency; the device at
\* the other end answers what it is sent or stays silent
InitLatency ==
    /\ lt_pc = "call"
    /\ lt_open \in BOOLEAN
    /\ lt_num_tests \in 1..MaxLatencyTests
    /\ lt_packet_size \in 1..MaxPacketSize
    /\ lt_answers \in BOOLEAN
    /\ lt_written = 0
    /\ lt_responses = 0
    /\ lt_result = "none"

\* test_latency: the two lines printed
LatencyCall ==
    /\ lt_pc = "call"
    /\ lt_pc' = "check"
    /\ UNCHANGED <<lt_open, lt_num_tests, lt_packet_size, lt_answers, lt_written,
                   lt_responses, lt_result>>
    /\ UNCHANGED notLatency

\* test_latency: if not self.serial_conn or not self.serial_conn.is_open:
\* return None
LatencyNotOpen ==
    /\ lt_pc = "check"
    /\ ~lt_open
    /\ lt_pc' = "returned"
    /\ lt_result' = "None"
    /\ UNCHANGED <<lt_open, lt_num_tests, lt_packet_size, lt_answers, lt_written,
                   lt_responses>>
    /\ UNCHANGED notLatency

\* test_latency: on an open connection the body ends after the check, and
\* the call returns None with nothing written and nothing read
LatencyBodyEnds ==
    /\ lt_pc = "check"
    /\ lt_open
    /\ lt_pc' = "returned"
    /\ lt_result' = "None"
    /\ UNCHANGED <<lt_open, lt_num_tests, lt_packet_size, lt_answers, lt_written,
                   lt_responses>>
    /\ UNCHANGED notLatency

NextLatency == LatencyCall \/ LatencyNotOpen \/ LatencyBodyEnds

InitSpecLatency ==
    InitLatency /\ IdleCodec /\ IdleRecv /\ IdleChunk /\ IdleLink /\ IdleThreads
    /\ IdleTimeout /\ IdleSend /\ IdleWait /\ IdleRtt /\ IdleBandwidth /\ IdleRover
    /\ IdleExtract

SpecLatency == InitSpecLatency /\ [][NextLatency]_vars

\* one of the two programs with threads is about to run
InitSpecThreads ==
    /\ \/ InitNode /\ IdleThroughput
       \/ IdleNode /\ InitThroughput
    /\ IdleCodec /\ IdleRecv /\ IdleChunk /\ IdleLink /\ IdleTimeout /\ IdleSend
    /\ IdleWait
    /\ IdleRtt
    /\ IdleBandwidth
    /\ IdleRover
    /\ IdleExtract
    /\ IdleLatency

SpecThreads == InitSpecThreads /\ [][NextThreads]_vars

\* the receive threads are scheduled again and again
SpecCancel ==
    InitSpecThreads /\ [][NextCancel]_vars /\ WF_vars(RxStep) /\ WF_vars(TpRxStep)

InitSpecTimeout ==
    InitTimeout /\ IdleCodec /\ IdleRecv /\ IdleChunk /\ IdleLink /\ IdleThreads /\ IdleSend
    /\ IdleWait
    /\ IdleRtt
    /\ IdleBandwidth
    /\ IdleRover
    /\ IdleExtract
    /\ IdleLatency

SpecTimeout == InitSpecTimeout /\ [][NextTimeout]_vars

\* a node about to send
InitSpecSend ==
    InitSend /\ IdleCodec /\ IdleRecv /\ IdleChunk /\ IdleLink /\ IdleThreads /\ IdleTimeout
    /\ IdleWait
    /\ IdleRtt
    /\ IdleBandwidth
    /\ IdleRover
    /\ IdleExtract
    /\ IdleLatency

SpecSend == InitSpecSend /\ [][NextSend]_vars

\* the thread in receive_data_with_timeout keeps running
InitSpecWait ==
    InitWait /\ IdleCodec /\ IdleRecv /\ IdleChunk /\ IdleLink /\ IdleThreads /\ IdleTimeout
    /\ IdleSend
    /\ IdleRtt
    /\ IdleBandwidth
    /\ IdleRover
    /\ IdleExtract
    /\ IdleLatency

SpecWait == InitSpecWait /\ [][NextWait]_vars /\ WF_vars(WaitStep)

\* an iteration of test_as_base about to send its payload
InitSpecRtt ==
    InitRtt /\ IdleCodec /\ IdleRecv /\ IdleChunk /\ IdleLink /\ IdleThreads /\ IdleTimeout
    /\ IdleSend /\ IdleWait
    /\ IdleBandwidth
    /\ IdleRover
    /\ IdleExtract
    /\ IdleLatency

SpecRtt == InitSpecRtt /\ [][NextRtt]_vars

----------------------------------------------------------------------------
(* XBeeBenchmark.run_bandwidth_test on the main thread, the receive thread
   answering the peer's PINGs meanwhile *)

\* data_size = 512
BW_DATA_SIZE == 512

\* what the steps of run_bandwidth_test and of the node's threads leave alone
notNodeBandwidth ==
    <<codecVars, recvVars, chunkVars, linkVars, timeoutVars, sendVars, waitVars, rttVars, roverVars, extractVars, latVars>>

\* the bytes of the DATA frames that the main thread wrote to the stream
RECURSIVE DataBytes(_)
DataBytes(stream) ==
    IF stream = <<>> THEN 0
    ELSE (IF Head(stream).by = "main" /\ Head(stream).type = MSG_DATA
          THEN Head(stream).n ELSE 0) + DataBytes(Tail(stream))

\* bytes_sent = self.tx_bytes - start_bytes
bytes_sent(tx_bytes_now, start_bytes) == tx_bytes_now - start_bytes

\* a started slave node whose run_comprehensive_test is about to call
\* run_bandwidth_test; nothing has been sent or received so far
InitBandwidth ==
    /\ x_pc = [main |-> "bw_init", rx |-> "check", stats |-> "check"]
    /\ x_running = TRUE
    /\ x_open = TRUE
    /\ x_tx_bytes = 0
    /\ x_rx_bytes = 0
    /\ x_latency = <<>>
    /\ x_stream = <<>>
    /\ x_send = [t \in Threads |-> NoSend]
    /\ x_air = <<>>
    /\ x_inbox = <<>>
    /\ x_todo = <<>>
    /\ x_series = 0
    /\ x_requests = [k \in 1..Len(latency_tests) |-> 0]
    /\ x_agg = <<>>
    /\ x_results = <<>>
    /\ x_closed_use = {}
    /\ x_peer_pings = 0
    /\ IdleThroughput
    /\ IdleBandwidth

\* run_bandwidth_test: start_bytes = self.tx_bytes, start_time
BwStart ==
    /\ x_pc["main"] = "bw_init"
    /\ bw_start_bytes' = x_tx_bytes
    /\ x_pc' = [x_pc EXCEPT !["main"] = "bw_loop"]
    /\ UNCHANGED <<bw_bytes_sent, x_running, x_open, x_latency, x_send, x_air,
                   x_closed_use, x_peer_pings>>
    /\ UNCHANGED <<SendVars, MainVars, RxVars, tpVars>>
    /\ UNCHANGED notNodeBandwidth

\* run_bandwidth_test, the loop: the duration is not over and running is
\* True: send_message(MSG_DATA, data_size), then time.sleep(0.01)
BwSend ==
    /\ x_pc["main"] = "bw_loop"
    /\ x_running
    /\ DataBytes(x_stream) < MaxBurst * FrameLen(BW_DATA_SIZE)
    /\ x_send' = [x_send EXCEPT !["main"] = SendCall(MSG_DATA, BW_DATA_SIZE, "bw_loop")]
    /\ x_pc' = [x_pc EXCEPT !["main"] = "send"]
    /\ UNCHANGED <<bwVars, x_running, x_open, x_latency, x_air, x_closed_use,
                   x_peer_pings>>
    /\ UNCHANGED <<SendVars, MainVars, RxVars, tpVars>>
    /\ UNCHANGED notNodeBandwidth

\* run_bandwidth_test: the duration is over: bytes_sent is computed and the
\* result is returned
BwEnd ==
    /\ x_pc["main"] = "bw_loop"
    /\ bw_bytes_sent' = bytes_sent(x_tx_bytes, bw_start_bytes)
    /\ x_pc' = [x_pc EXCEPT !["main"] = "bw_done"]
    /\ UNCHANGED <<bw_start_bytes, x_running, x_open, x_latency, x_send, x_air,
                   x_closed_use, x_peer_pings>>
    /\ UNCHANGED <<SendVars, MainVars, RxVars, tpVars>>
    /\ UNCHANGED notNodeBandwidth

NextBandwidth ==
    \/ BwStart
    \/ BwSend
    \/ BwEnd
    \/ \E t \in {"main", "rx"} : SendBegin(t)
    \/ \E t \in {"main", "rx"} : SendEnd(t)
    \/ \E t \in {"main", "rx"} : SendCount(t)
    \/ RxCheck
    \/ RxPoll
    \/ RxHandle
    \/ XArrive
    \/ PeerPing

InitSpecBandwidth ==
    InitBandwidth /\ IdleCodec /\ IdleRecv /\ IdleChunk /\ IdleLink /\ IdleTimeout
    /\ IdleSend /\ IdleWait /\ IdleRtt
    /\ IdleRover
    /\ IdleExtract
    /\ IdleLatency

SpecBandwidth == InitSpecBandwidth /\ [][NextBandwidth]_vars

----------------------------------------------------------------------------
(* Claims about the frame codec (SpecCodec) *)

\* the bytes create_message builds from the drawn arguments
BuiltMessage ==
    create_message(c_in.node_id, c_in.msg_type, c_in.data_size,
                   <<c_in.payload>>, c_in.t)

\* the bytes between the markers of the parsed byte string
ParsedContent == PySlice(c_data, 2, -2)

\* C1: round-trip law.  Whenever parse_message is applied to the bytes that
\* create_message built with data_size = len(payload), it returns the same
\* type, originator id, timestamp and payload, for payload lengths 0 up to
\* the bound and for length 65535.
C1_RoundTrip ==
    (c_pc = "parsed" /\ c_data = BuiltMessage /\ c_in.data_size = Len(c_in.payload))
        => /\ c_out.kind = "msg"
           /\ c_out.type = c_in.msg_type
           /\ c_out.node_id = c_in.node_id
           /\ c_out.timestamp = time_time(c_in.t)
           /\ c_out.data_size = Len(c_in.payload)
           /\ c_out.payload = c_in.payload

\* a message with the longest payload, 65535 bytes, has been built and parsed
C1_Witness ==
    /\ c_pc = "parsed"
    /\ c_data = BuiltMessage
    /\ Len(c_in.payload) = 65535
    /\ c_in.data_size = 65535
    /\ c_out.kind = "msg"

\* C2: a byte string with both markers and a full header whose declared
\* payload length differs from the number of bytes between the header and
\* the end marker is parsed to None, never to a frame.
C2_LengthMismatchIsMalformed ==
    ( /\ c_pc = "parsed"
      /\ StartsWith(c_data, START_MARKER)
      /\ EndsWith(c_data, END_MARKER)
      /\ Len(ParsedContent) >= MIN_CONTENT
      /\ struct_unpack_H(PySlice(ParsedContent, 13, 15)) # Len(ParsedContent) - MIN_CONTENT )
        => c_out = None

\* C3: parse_message returns None, and raises nothing, for every byte
\* string without the start marker, without the end marker, or with fewer
\* than 15 bytes between the markers.
C3_MalformedIsNone ==
    c_pc = "parsed"
        => /\ c_out # Raised
           /\ ( \/ ~StartsWith(c_data, START_MARKER)
                \/ ~EndsWith(c_data, END_MARKER)
                \/ Len(ParsedContent) < MIN_CONTENT ) => c_out = None

\* a truncated message that still has both markers, but a short header, has
\* been parsed
C3_Witness ==
    /\ c_pc = "parsed"
    /\ StartsWith(c_data, START_MARKER)
    /\ EndsWith(c_data, END_MARKER)
    /\ Len(ParsedContent) < MIN_CONTENT
    /\ c_out = None

----------------------------------------------------------------------------
(* Claims about the receive loop (SpecRecv) *)

\* the message m handed to the handler is the frame f as the peer built it
SameFrame(m, f) ==
    /\ m.type = f.type
    /\ m.node_id = f.node_id
    /\ m.timestamp = f.timestamp
    /\ m.data_size = Len(f.payload)
    /\ m.payload = f.payload

\* C4: the receive loop frames by declared length.  Every message handed to
\* the handler is one of the peer's well-formed frames, whole and in order,
\* also when its timestamp or payload holds b'##' or b'$$'; once every byte
\* has been read, every frame has been handed over and nothing is left in the
\* buffer.
C4_FramedByDeclaredLength ==
    /\ Len(dispatched) <= Len(peer_frames)
    /\ \A i \in 1..Len(dispatched) :
         i <= Len(peer_frames) => SameFrame(dispatched[i], peer_frames[i])
    /\ (air = <<>> /\ in_waiting = <<>>)
         => (Len(dispatched) = Len(peer_frames) /\ buffer = <<>>)

\* the PING messages handled, and the PONG frames written, in order
PingsHandled == SelectSeq(dispatched, LAMBDA m : m.type = MSG_PING)

PongsWritten == SelectSeq(written, LAMBDA w : PySlice(w, 2, 6) = MSG_PONG)

\* C5: the PONG written in answer to a PING carries that PING's timestamp
\* and payload, not the reading of the responder's clock when the PONG is
\* built.
C5_PongEchoesTimestamp ==
    /\ Len(PongsWritten) = Len(PingsHandled)
    /\ \A i \in 1..Len(PongsWritten) :
         LET pong == parse_message(PongsWritten[i], clock) IN
         /\ pong.kind = "msg"
         /\ pong.payload = PingsHandled[i].payload
         /\ pong.timestamp = PingsHandled[i].timestamp

----------------------------------------------------------------------------
(* Claims about the paced transmitter (SpecChunk) *)

\* the writes of the log, in order
ChunkWrites == SelectSeq(cs_log, LAMBDA e : e.op = "write")

\* the bytes the stream accepted, in order
RECURSIVE AcceptedBytes(_)
AcceptedBytes(ws) ==
    IF ws = <<>> THEN <<>>
    ELSE PySlice(Head(ws).chunk, 0, Max(Head(ws).accepted, 0)) \o AcceptedBytes(Tail(ws))

\* every write so far was accepted whole
AllWritesFull == \A i \in 1..Len(ChunkWrites) :
                    ChunkWrites[i].accepted = Len(ChunkWrites[i].chunk)

\* ceil(a / b)
CeilDiv(a, b) == (a + b - 1) \div b

\* C6: a write that reports fewer bytes than its chunk holds (a positive
\* short count, 0, or a failure) is the last write of the call; the call
\* returns the number of bytes accepted, and the bytes accepted are a prefix
\* of the payload: none is skipped, none is sent twice.
C6_StopsOnPartialWrite ==
    /\ \A i \in 1..Len(ChunkWrites) :
         ChunkWrites[i].accepted < Len(ChunkWrites[i].chunk) => i = Len(ChunkWrites)
    /\ AcceptedBytes(ChunkWrites) = PySlice(cs_data, 0, Len(AcceptedBytes(ChunkWrites)))
    /\ cs_pc = "done" => cs_ret = Len(AcceptedBytes(ChunkWrites))

\* C7: when every write accepts its whole chunk, a call with a payload of L
\* bytes and chunk size C ends after exactly ceil(L/C) writes, each of C
\* bytes but the last, which holds the rest; the chunks concatenated are the
\* payload, the call returns L, and a sleep follows every write, so one lies
\* between any two consecutive writes.
C7_Chunking ==
    AllWritesFull =>
        /\ \A i \in 1..Len(cs_log) :
             (cs_log[i].op = "write") <=> (i % 2 = 1)
        /\ \A i \in 1..Len(ChunkWrites) :
             Len(ChunkWrites[i].chunk) =
                IF i < CeilDiv(Len(cs_data), cs_chunk_size)
                THEN cs_chunk_size
                ELSE Len(cs_data) - (i - 1) * cs_chunk_size
        /\ cs_pc = "done" =>
             /\ Len(ChunkWrites) = CeilDiv(Len(cs_data), cs_chunk_size)
             /\ Len(cs_log) = 2 * Len(ChunkWrites)
             /\ AcceptedBytes(ChunkWrites) = cs_data
             /\ cs_ret = Len(cs_data)

\* the call with 600 bytes and chunks of 256 has returned after writes of
\* 256, 256 and 88 bytes, all accepted
C7_Witness ==
    /\ cs_pc = "done"
    /\ Len(cs_data) = 600
    /\ cs_chunk_size = 256
    /\ AllWritesFull
    /\ Len(ChunkWrites) = 3
    /\ Len(ChunkWrites[1].chunk) = 256
    /\ Len(ChunkWrites[2].chunk) = 256
    /\ Len(ChunkWrites[3].chunk) = 88
    /\ cs_ret = 600

----------------------------------------------------------------------------
(* Claims about the handshake of the linked run (SpecLink) *)

\* how many of the writes in log carried data
Writes(log, data) == Cardinality({i \in 1..Len(log) : log[i] = data})

\* the endpoint e has left its wait for the sync message in this step
SyncWaitEnds(e) == pc[e] = "sync_wait" /\ pc'[e] # "sync_wait"

\* the wait of e ended with exactly the sync message, read before the deadline
SyncEchoed(e) ==
    /\ rcv[e].received = SYNC_MSG
    /\ rcv[e].last >= rcv[e].start
    /\ rcv[e].last < rcv[e].deadline

\* the base has not written before wait_for_sync, and from then on has
\* written the sync message exactly once, as its first write
BaseSendsSyncOnce ==
    IF pc["base"] \in {"init", "sync"} \/ sync["base"] = "Idle"
    THEN sent["base"] = <<>>
    ELSE /\ Len(sent["base"]) >= 1
         /\ sent["base"][1] = SYNC_MSG
         /\ Writes(sent["base"], SYNC_MSG) = 1

\* when the base's wait ends it is Ready if exactly the sync message came
\* back within the wait, and Failed otherwise
BaseSyncVerdict ==
    SyncWaitEnds("base") =>
        /\ rcv["base"].deadline = rcv["base"].start + SYNC_TIMEOUT_BASE
        /\ sync'["base"] = IF SyncEchoed("base") THEN "Ready" ELSE "Failed"

\* Ready and Failed are final
SyncIsFinal(e) == sync[e] \in {"Ready", "Failed"} => sync'[e] = sync[e]

\* C8: the base sends the sync message once, becomes Ready exactly when the
\* same bytes come back within its wait of 5 s, and Failed on anything else
\* (nothing, fewer bytes, other bytes).
C8_BaseHandshake ==
    /\ []BaseSendsSyncOnce
    /\ [][BaseSyncVerdict /\ SyncIsFinal("base")]_vars

\* the base is Ready on an echo that came back, about to start its tests
C8_Witness ==
    /\ sync["base"] = "Ready"
    /\ pc["base"] = "iter"
    /\ rcv["base"].received = SYNC_MSG
    /\ sent["base"] = <<SYNC_MSG>>

\* the rover has written nothing while it is not Ready; once Ready its first
\* write is the echo and there is no second echo
RoverEchoesOnce ==
    IF sync["rover"] = "Ready"
    THEN /\ Len(sent["rover"]) >= 1
         /\ sent["rover"][1] = SYNC_MSG
         /\ Writes(sent["rover"], SYNC_MSG) = 1
    ELSE sent["rover"] = <<>>

\* when the rover's wait ends: the sync message came within the wait, and
\* the rover echoes it and is Ready; or it did not, and the rover is Failed
\* and has written nothing
RoverSyncVerdict ==
    SyncWaitEnds("rover") =>
        /\ rcv["rover"].deadline = rcv["rover"].start + SYNC_TIMEOUT_ROVER
        /\ IF SyncEchoed("rover")
           THEN sync'["rover"] = "Ready" /\ sent'["rover"] = <<SYNC_MSG>>
           ELSE sync'["rover"] = "Failed" /\ sent'["rover"] = <<>>

\* C9: the rover writes nothing until it has received the sync message; on
\* receiving it within its wait of 30 s it echoes the same bytes once and is
\* Ready; otherwise it is Failed and has written nothing.
C9_RoverHandshake ==
    /\ []RoverEchoesOnce
    /\ [][RoverSyncVerdict /\ SyncIsFinal("rover")]_vars

\* the rover is Ready, its echo written, about to wait for a size header
C9_Witness ==
    /\ sync["rover"] = "Ready"
    /\ pc["rover"] = "hdr"
    /\ rcv["rover"].received = SYNC_MSG
    /\ sent["rover"] = <<SYNC_MSG>>

\* after a failed handshake the run is in its finally clause or over, with
\* False returned and the port closed
FailedRunEnds(e) ==
    sync[e] = "Failed" =>
        /\ pc[e] \in {"finally_fail", "done"}
        /\ pc[e] = "done" => result[e] = "False" /\ ~port[e]
        /\ Writes(sent[e], SYNC_MSG) <= 1
        /\ \A i \in 1..Len(sent[e]) : sent[e][i] = SYNC_MSG

\* after a failed handshake nothing is written, nothing is read from the
\* port, no wait is entered and the handshake is not taken up again
FailedRunIsQuiet(e) ==
    sync[e] = "Failed" =>
        /\ sent'[e] = sent[e]
        /\ rcv'[e] = rcv[e]
        /\ Len(rxq'[e]) >= Len(rxq[e])
        /\ sync'[e] = "Failed"
        /\ pc'[e] \in {"finally_fail", "done"}

\* C10: a failed handshake aborts the run: the run returns False, the
\* handshake is not retried, and no size header, payload or wait for an ACK
\* follows on the port.
C10_FailedHandshakeAborts ==
    /\ [](\A e \in Endpoints : FailedRunEnds(e))
    /\ [][\A e \in Endpoints : FailedRunIsQuiet(e)]_vars

\* the base's wait ran out with no echo and its run has returned False
C10_Witness ==
    /\ sync["base"] = "Failed"
    /\ pc["base"] = "done"
    /\ result["base"] = "False"
    /\ now >= rcv["base"].deadline
    /\ rcv["base"].received = <<>>
    /\ sent["base"] = <<SYNC_MSG>>

----------------------------------------------------------------------------
(* Claims about a latency series and about the threads of a node
   (SpecThreads, SpecCancel) *)

\* the latency tests that have returned
Returned == 1..Len(x_results)

\* the samples the k-th latency test reported
Samples(k) == IF x_results[k] = None THEN 0 ELSE x_results[k].packets

\* C11: a missing or late reply leaves the series going and is counted as a
\* loss: what a series returns holds a loss counter, and its samples and
\* losses add up to the requests the series sent.
C11_LossesAreCounted ==
    \A k \in Returned :
        /\ x_results[k] # None
        /\ "losses" \in DOMAIN x_results[k]
        /\ x_results[k].packets + x_results[k].losses = x_requests[k]

\* C12: a series never reports more samples than it sent requests, and
\* when each of its N requests was answered before the series was read it
\* reports exactly N samples.
C12_SamplesWithinRequests ==
    /\ \A k \in Returned : Samples(k) <= x_requests[k]
    /\ x_pc["main"] = "report" /\ Cardinality(Answering(x_latency, x_series)) = x_requests[x_series]
          => Len(x_latency) = x_requests[x_series]

\* C13: the replies a series aggregates as its samples all answer requests
\* of that series; none answers a request of an earlier series.
C13_RepliesBelongToTheSeries ==
    x_pc["main"] = "report" =>
        \A i \in 1..Len(x_agg) : x_agg[i].cause = x_series

\* the bytes the stream has accepted
RECURSIVE Accepted(_)
Accepted(stream) == IF stream = <<>> THEN 0 ELSE Head(stream).n + Accepted(Tail(stream))

\* no thread is inside send_message
NoSendInProgress == \A t \in Threads : x_pc[t] \notin {"send", "write", "count"}

\* C14: under every interleaving of the main thread's sends and the receive
\* thread's PONGs, once the sends have returned tx_bytes is the number of
\* bytes the stream accepted: no increment is lost.
C14_TxBytesCountsEveryWrite ==
    x_open /\ NoSendInProgress => x_tx_bytes = Accepted(x_stream)

\* C15: two threads are never writing to the stream at once, and the two
\* parts of a frame lie next to each other in the stream: no part of another
\* thread's frame comes between them.
C15_OneWriterAtATime ==
    /\ ~(x_pc["main"] = "write" /\ x_pc["rx"] = "write")
    /\ \A i \in 1..Len(x_stream) :
         x_stream[i].part = 2 =>
            /\ i > 1
            /\ x_stream[i - 1].part = 1
            /\ x_stream[i - 1].by = x_stream[i].by

\* C16: the stream is closed only when the receive thread has seen running =
\* False and left its loop, and no thread reads from or writes to the stream
\* after it has been closed.
C16_ClosedAfterReceiverStopped ==
    /\ ~x_open /\ x_pc["main"] = "done" /\ x_pc["rx"] # "off" => x_pc["rx"] = "exit"
    /\ x_closed_use = {}

\* C17: the main thread is not clearing or aggregating latency_measurements
\* while the receive thread is at its append, and what an aggregation
\* reports was read from one state of the collection.
C17_AggregateExcludesAppend ==
    /\ ~(x_pc["rx"] = "append" /\ x_pc["main"] \in {"clear", "aggregate", "report"})
    /\ \A k \in Returned :
         x_results[k] # None => x_results[k].mean_over = x_results[k].packets

\* the receive thread of the node is in its loop
RxInLoop == x_pc["rx"] \notin {"off", "exit"}

\* the receiver thread of test_throughput is in its loop
TpRxInLoop == tp_rx \notin {"off", "exit"}

\* C18: once running is False the background receive loop exits, whatever
\* frames are arriving or not: it is out of its loop after the pass it was
\* in, for the next time it is at its loop condition it leaves the loop;
\* so it is with the receiver thread of test_throughput.
C18_CancellationIsLive ==
    /\ (RxInLoop /\ ~x_running) ~> (x_pc["rx"] = "exit")
    /\ (TpRxInLoop /\ ~tp_running) ~> (tp_rx = "exit")
    /\ [][/\ (~x_running /\ x_pc["rx"] = "check" /\ x_pc'["rx"] # "check")
               => x_pc'["rx"] = "exit"
          /\ (~tp_running /\ tp_rx = "check" /\ tp_rx' # "check")
               => tp_rx' = "exit"]_vars

\* the receive thread has read frames from the port, start() has cleared
\* running, and the thread has left its loop
C18_Witness ==
    /\ x_pc["rx"] = "exit"
    /\ ~x_running
    /\ x_rx_bytes > 0
    /\ x_pc["main"] \in {"finally", "done"}

----------------------------------------------------------------------------
(* Claims about resynchronization of the receive loop (SpecResync) *)

\* every byte the link carried has been read by the receive loop
AllRead == air = <<>> /\ in_waiting = <<>>

\* C19: for a garbage prefix (stray marker bytes, a truncated frame)
\* followed by a well-formed frame, once the receive loop has read all the
\* bytes the well-formed frame has been handed to handle_received_message
\* with its type and payload, and the garbage has been handed over as
\* nothing.
C19_ResyncDeliversGoodFrame ==
    AllRead /\ peer_frames # <<>> =>
        /\ Len(dispatched) = 1
        /\ dispatched[1].type = peer_frames[1].type
        /\ dispatched[1].node_id = peer_frames[1].node_id
        /\ dispatched[1].payload = peer_frames[1].payload

----------------------------------------------------------------------------
(* Claims about the ACK wait timeout (SpecTimeout) *)

\* C20: for every payload size and baud rate, the ACK wait timeout of an
\* iteration is at least 3 times the estimated on-air time of the payload
\* and at least the floor of 0.5 s; at 9600 baud a payload of 64 bytes gets
\* exactly the floor.
C20_AdaptiveTimeout ==
    to_pc = "done" =>
        /\ to_est = estimate_tx_time_at(to_size, to_baud)
        /\ to_timeout >= 3 * to_est
        /\ to_timeout >= Millis(500, to_baud)
        /\ (to_baud = 9600 /\ to_size = 64) => to_timeout = Millis(500, to_baud)

\* the timeout of a 64 byte payload at 9600 baud has been derived: the
\* estimate is above 0.067 s and the timeout is the floor
C20_Witness ==
    /\ to_pc = "done"
    /\ to_baud = 9600
    /\ to_size = 64
    /\ to_est > Millis(67, to_baud)
    /\ to_timeout = Millis(500, to_baud)

\* |a - b|
Distance(a, b) == IF a >= b THEN a - b ELSE b - a

\* the derivation is over for a payload of 1024 bytes at 9600 baud
Derived1024At9600 == to_pc = "done" /\ to_baud = 9600 /\ to_size = 1024

\* C21 as stated: at 9600 baud and 1024 bytes the estimated on-air time is
\* about 1.0668 s (within a millisecond of it) and the derived timeout is
\* 3.2 s (to the tenth of a second).
C21_TimeoutIs3200ms ==
    Derived1024At9600 =>
        /\ Distance(10 * to_est, Millis(10668, to_baud)) <= Millis(10, to_baud)
        /\ Distance(to_timeout, Millis(3200, to_baud)) <= Millis(50, to_baud)

\* C21, amended: at 9600 baud and 1024 bytes the estimated on-air time is
\* 10240 / 9600 + 0.001 s, about 1.0677 s, and the derived timeout is three
\* times the estimate plus the fixed margin of 0.2 s: max(0.5, 3.403) =
\* 3.403 s.
C21_TimeoutIs3403ms ==
    Derived1024At9600 =>
        /\ 1200 * to_est = 10240 * 6000 + 1200 * Millis(1, to_baud)
        /\ Distance(10 * to_est, Millis(10677, to_baud)) <= Millis(1, to_baud)
        /\ to_timeout = Millis(3403, to_baud)

\* the timeout of a 1024 byte payload at 9600 baud has been derived and is
\* above the floor
C21_Witness ==
    /\ Derived1024At9600
    /\ to_timeout > Millis(500, to_baud)
    /\ to_timeout = 3 * to_est + Millis(200, to_baud)

\* two derivations have been made, the one before and this one
TwoDerived == to_pc = "done" /\ to_prev # NoDerivation

\* C22: of two derivations at one baud rate the one for more bytes gets no
\* shorter a timeout, and of two derivations for one byte count the one at
\* the higher baud rate gets no longer a timeout; for the base's ACK
\* timeout and for the rover's payload timeout.
C22_TimeoutIsMonotone ==
    TwoDerived =>
        /\ (to_prev.baud = to_baud /\ to_prev.size <= to_size) =>
              /\ to_prev.timeout <= to_timeout
              /\ to_prev.rover <= to_rover
        /\ (to_prev.size = to_size /\ to_prev.baud <= to_baud) =>
              /\ InCommonUnits(to_prev.timeout, to_prev.baud)
                    >= InCommonUnits(to_timeout, to_baud)
              /\ InCommonUnits(to_prev.rover, to_prev.baud)
                    >= InCommonUnits(to_rover, to_baud)

\* two derivations for 1024 bytes, at 1200 and then at 9600 baud: both
\* timeouts of the second are shorter than those of the first and above
\* their floors
C22_Witness ==
    /\ TwoDerived
    /\ to_prev.size = 1024 /\ to_size = 1024
    /\ to_prev.baud = 1200 /\ to_baud = 9600
    /\ InCommonUnits(to_prev.timeout, to_prev.baud) > InCommonUnits(to_timeout, to_baud)
    /\ InCommonUnits(to_prev.rover, to_prev.baud) > InCommonUnits(to_rover, to_baud)
    /\ to_timeout > Millis(500, to_baud)
    /\ to_rover > Millis(1000, to_baud)

----------------------------------------------------------------------------
(* Claims about the length of a frame (SpecCodec) *)

\* create_message has built the message and nothing has changed it yet
JustBuilt == c_pc = "built"

\* C23 as stated: the encoded length of a frame is 17 bytes plus the length
\* of its payload.
C23_Overhead17 == JustBuilt => Len(c_data) = 17 + Len(c_in.payload)

\* C23, amended: the encoded length of a frame is 19 bytes of framing (two
\* markers of 2 bytes, 4 bytes of type, 1 of originator id, 8 of timestamp,
\* 2 of payload length) plus the length of its payload.
C23_Overhead19 ==
    JustBuilt =>
        /\ Len(c_data) = 19 + Len(c_in.payload)
        /\ Len(c_data) = Len(START_MARKER) + Len(c_in.msg_type) + 1 + 8 + 2
                            + Len(c_in.payload) + Len(END_MARKER)

\* a frame with a payload of two bytes has been built: 21 bytes
C23_Witness ==
    /\ JustBuilt
    /\ Len(c_in.payload) = 2
    /\ Len(c_data) = 21

----------------------------------------------------------------------------
(* Claims about the effect of send_message (SpecSend) *)

\* C24: after any sequence of send_message calls tx_bytes has grown by the
\* byte counts the stream's writes returned, and by nothing else; a call on
\* a closed connection, or one whose write raised, has returned False and
\* left tx_bytes as it was, and a call whose write returned has returned
\* True.
C24_TxBytesCountsConfirmedBytes ==
    /\ sm_tx_bytes = sm_accepted
    /\ sm_last.outcome \in {"closed", "raises"} =>
          /\ sm_last.ret = FALSE
          /\ sm_tx_bytes = sm_last.before
    /\ sm_last.outcome = "returns" =>
          /\ sm_last.ret = TRUE
          /\ sm_tx_bytes = sm_last.before + sm_last.bytes_sent

\* a write has been counted, and the call after it failed on a write that
\* raised: tx_bytes still holds the bytes of the first
C24_Witness ==
    /\ sm_calls >= 2
    /\ sm_last.outcome = "raises"
    /\ sm_last.before > 0
    /\ sm_tx_bytes = sm_last.before
    /\ sm_open

----------------------------------------------------------------------------
(* Claims about receive_data_with_timeout (SpecWait) *)

\* the call has returned
WaitReturned == rw_pc = "returned"

\* expected_size bytes had been accumulated when the call returned
WaitAccumulated == rw_call # NoRecv /\ Len(rw_call.received) = rw_call.expected

\* the deadline had elapsed when the call returned
WaitElapsed == rw_call # NoRecv /\ rw_now >= rw_call.deadline

----------------------------------------------------------------------------
(* Claims about the round trip of an iteration (SpecRtt) *)

\* the iteration is over and has yielded a sample
Sampled == rt_pc = "done" /\ rt_sample

\* C26 as stated: for an iteration that yields a sample the round trip is
\* the time of the last accepted ACK byte minus the time the payload write
\* started, the one-way latency is half the round trip, and it is positive.
C26_RoundTripIsLastMinusStart ==
    Sampled =>
        /\ rt_rtt = rt_last - rt_tx_start
        /\ rt_one_way = rt_rtt
        /\ rt_one_way > 0

\* C26, amended: for an iteration that yields a sample the round trip is
\* the time of the last accepted ACK byte minus the time the payload write
\* started when that difference is positive, and otherwise twice the time
\* the payload write took (twice a nanosecond at least); the one-way
\* latency is exactly half the round trip, and it is positive.
C26_RoundTripOrFallback ==
    Sampled =>
        /\ rt_last - rt_tx_start > 0 => rt_rtt = rt_last - rt_tx_start
        /\ rt_last - rt_tx_start <= 0 =>
              /\ rt_rtt >= 2
              /\ rt_rtt = 2 * Max(1, rt_tx_end - rt_tx_start)
        /\ rt_one_way = rt_rtt
        /\ rt_one_way > 0

\* a sample whose ACK was read an odd number of ticks after the payload
\* write started, the clock having run forward all the while
C26_Witness ==
    /\ Sampled
    /\ rt_set_back = 0
    /\ rt_rtt = rt_last - rt_tx_start
    /\ rt_rtt % 2 = 1
    /\ rt_one_way = rt_rtt

----------------------------------------------------------------------------
(* Claims about the size of latency_measurements (SpecPongs) *)

\* C27: latency_measurements never holds more than 1000 samples, however
\* many PONG frames the node has handled.
C27_LatencyMeasurementsBounded ==
    /\ Len(latency_measurements) <= 1000
    /\ Len(latency_measurements) = Min(1000, Len(dispatched))

\* more than 1000 PONGs have been handled and the collection holds 1000
C27_Witness ==
    /\ Len(dispatched) > 1000
    /\ \A i \in {1, Len(dispatched)} : dispatched[i].type = MSG_PONG
    /\ Len(latency_measurements) = 1000

----------------------------------------------------------------------------
(* Claims about the exit status of rf_latency_test (SpecLink) *)

\* run_test has returned on e because the port could not be opened
PortNotOpened(e) == pc[e] = "done" /\ sync[e] = "Idle"

\* run_test has returned on e because the handshake failed
HandshakeFailed(e) == pc[e] = "done" /\ sync[e] = "Failed"

\* C28: the process exits with status 0 when the run completes and with a
\* non-zero status when the port cannot be opened or the handshake fails.
C28_ExitStatus ==
    \A e \in Endpoints :
        /\ (pc[e] = "done" /\ result[e] = "True") => exit_status(result[e]) = 0
        /\ (PortNotOpened(e) \/ HandshakeFailed(e)) => exit_status(result[e]) # 0

----------------------------------------------------------------------------
(* Claims about run_bandwidth_test (SpecBandwidth) *)

\* C29: the bytes_sent that run_bandwidth_test reports is the total encoded
\* size of the DATA frames it wrote during the burst, whatever the receive
\* thread did meanwhile.
C29_BytesSentIsTheBurst ==
    x_pc["main"] = "bw_done" => bw_bytes_sent = DataBytes(x_stream)

----------------------------------------------------------------------------
(* Claims about the rover finding the boundaries again (SpecRepeat) *)

\* the ACKs the rover has written
AcksSent == Cardinality({i \in 1..Len(sent["rover"]) : sent["rover"][i] = ACK_BYTES})

\* the base has sent all its iterations after a handshake that succeeded on
\* both sides, every byte on its way to the rover has arrived and has been
\* read, and the rover waits for a size header with nothing received
RoverQuiet ==
    /\ sync = [e \in Endpoints |-> "Ready"]
    /\ pc["base"] \in {"ack_wait", "finally_ok", "done"}
    /\ size_i = Len(link_sizes)
    /\ it = ResyncIterations
    /\ wire["rover"] = <<>>
    /\ rxq["rover"] = <<>>
    /\ pc["rover"] = "hdr_wait"
    /\ rcv["rover"].received = <<>>

\* C30: the rover resynchronizes after a failed iteration: a lost byte
\* costs the iteration it was part of and no other, the next size header and
\* payload that arrive whole are read on their boundaries and acknowledged;
\* so once everything sent has been read, all iterations but one for each
\* lost byte have their ACK.
C30_RoverResynchronizes ==
    RoverQuiet => AcksSent >= ResyncIterations * Len(link_sizes) - faults

----------------------------------------------------------------------------
(* Claims about the rover's acknowledgements (SpecRepeat) *)

\* the rover's wait for a payload has returned all the bytes the header
\* declared
PayloadComplete ==
    /\ pc["rover"] = "payload_wait"
    /\ recv_over(rcv["rover"], now)
    /\ Len(recv_bytes(rcv["rover"])) = expected

\* the step in which the rover leaves the wait for a payload
PayloadReturns == pc["rover"] = "payload_wait" /\ pc'["rover"] = "hdr"

\* C31: the rover acknowledges only complete payloads: during its receiver
\* loop it writes to the port only on leaving the wait for a payload, one
\* ACK when the declared number of bytes arrived within the timeout and
\* nothing otherwise; the ACKs sent never outnumber the headers received.
C31_AckOnlyCompletePayloads ==
    /\ [](AcksSent <= rv_headers)
    /\ [][/\ (pc["rover"] \in {"hdr", "hdr_wait", "payload_wait"}
               /\ sent'["rover"] # sent["rover"]) => PayloadReturns
          /\ PayloadReturns =>
                sent'["rover"] = IF PayloadComplete
                                 THEN Append(sent["rover"], ACK_BYTES)
                                 ELSE sent["rover"]]_vars

\* one header was acknowledged, another had its payload abandoned
C31_Witness ==
    /\ pc["rover"] = "hdr"
    /\ rv_headers = 2
    /\ AcksSent = 1

----------------------------------------------------------------------------
(* Claims about the two sides of the handshake (SpecLink) *)

\* the rover has read the sync message, echoed it and is Ready
RoverSynced ==
    /\ sync["rover"] = "Ready"
    /\ Len(sent["rover"]) >= 1
    /\ sent["rover"][1] = SYNC_MSG
    /\ sent["base"] # <<>>

\* C32: handshake agreement: whenever the base is Ready, the rover has
\* received the sync message and is Ready, and it was so before the step in
\* which the base became Ready; the base is never Ready while the rover is
\* Failed or still waiting.
C32_HandshakeAgreement ==
    /\ [](sync["base"] = "Ready" => RoverSynced)
    /\ [][(sync["base"] # "Ready" /\ sync'["base"] = "Ready") => RoverSynced]_vars

\* both sides are Ready and the measurement is about to begin
C32_Witness ==
    /\ sync = [e \in Endpoints |-> "Ready"]
    /\ pc["base"] = "iter"
    /\ pc["rover"] \in {"hdr", "hdr_wait"}
    /\ it = 0

----------------------------------------------------------------------------
(* Claims about what the handler writes (SpecHandler) *)

\* how many of the messages handled so far were PINGs
PingCount(handled) == Cardinality({i \in 1..Len(handled) : handled[i].type = MSG_PING})

\* C33: only a PING triggers a reply: everything the receive thread writes
\* is a PONG, a step writes one frame for each PING it handled and none for
\* a PONG, DATA, SYNC or RESULT, so the PONGs sent never outnumber the PINGs
\* handled.
C33_OnlyPingIsAnswered ==
    /\ [](/\ Len(written) <= PingCount(dispatched)
          /\ \A i \in 1..Len(written) :
                parse_message(written[i], clock).type = MSG_PONG)
    /\ [][Len(written') - Len(written)
             = IF serial_open THEN PingCount(dispatched') - PingCount(dispatched) ELSE 0]_vars

\* a PING and a SYNC or RESULT have been handled, one PONG written
C33_Witness ==
    /\ Len(written) = 1
    /\ PingCount(dispatched) = 1
    /\ \E i \in 1..Len(dispatched) : dispatched[i].type \in {MSG_SYNC, MSG_RESULT}

----------------------------------------------------------------------------
(* Claims about the extraction loop (SpecExtract) *)

\* C34: frame extraction terminates: from every buffer the loop comes to its
\* end; every candidate cut out leaves the buffer strictly shorter; a
\* candidate that fails to parse is dropped and the loop goes on.
C34_ExtractionTerminates ==
    /\ (ex_pc = "loop") ~> (ex_pc = "done")
    /\ [][(ex_pc = "loop" /\ ex_buffer' # ex_buffer)
             => Len(ex_buffer') < Len(ex_buffer)]_vars
    /\ [][(ex_handled' + ex_dropped' > ex_handled + ex_dropped)
             => Len(ex_buffer') < Len(ex_buffer)]_vars
    /\ [][ex_dropped' > ex_dropped => (ex_pc' = "loop" /\ ex_handled' = ex_handled)]_vars

\* the loop has ended after dropping a candidate and handing on the frame
\* behind it
C34_Witness ==
    /\ ex_pc = "done"
    /\ ex_dropped >= 1
    /\ ex_handled = 1

----------------------------------------------------------------------------
(* Claims about the ways out of run_test (SpecClose) *)

\* the port of e is closed in this step
Closes(e) == port[e] /\ ~port'[e]

\* run_test of e returns in this step, having opened the port
ReturnsAfterConnect(e) == pc[e] \notin {"init", "done"} /\ pc'[e] = "done"

\* e's port has been opened and closed again
ClosedAgain(e) == pc[e] # "init" /\ ~port[e]

\* C35: every run that opened the port closes it: on every way out of
\* run_test after a successful connect (failed handshake, completed base
\* test, interrupted rover loop, interrupt, unexpected error) the port is
\* closed exactly once, in the step that returns, and no I/O follows.
C35_PortClosedOnEveryPathOut ==
    /\ [](\A e \in Endpoints : pc[e] = "done" => (~port[e] /\ result[e] # "none"))
    /\ [][\A e \in Endpoints :
             /\ ReturnsAfterConnect(e) => Closes(e)
             /\ Closes(e) => (pc[e] \in {"finally_ok", "finally_fail"}
                              /\ ReturnsAfterConnect(e))
             /\ ClosedAgain(e) =>
                    /\ pc'[e] = "done" /\ ~port'[e]
                    /\ sent'[e] = sent[e]
                    /\ rcv'[e] = rcv[e]
                    /\ Len(rxq'[e]) >= Len(rxq[e])]_vars

\* the base has finished its test and the rover's loop was interrupted:
\* both have returned True with their ports closed
C35_Witness ==
    /\ pc["base"] = "done" /\ result["base"] = "True"
    /\ pc["rover"] = "done" /\ result["rover"] = "True"
    /\ ~port["base"] /\ ~port["rover"]
    /\ AcksSent >= 1

----------------------------------------------------------------------------
(* Claims about test_latency (SpecLatency) *)

\* C36: test_latency performs the round-trip latency test: on an open
\* connection it has sent num_tests packets when it returns, and it returns
\* statistics when at least one response arrived; it returns None only when
\* the connection is not open or no response arrived.
C36_LatencyTestPerformed ==
    lt_pc = "returned" =>
        IF lt_open
        THEN /\ lt_written = lt_num_tests
             /\ lt_result = (IF lt_responses >= 1 THEN "statistics" ELSE "None")
             /\ lt_answers => lt_responses >= 1
        ELSE /\ lt_written = 0
             /\ lt_result = "None"

=============================================================================
